---- MODULE Spec2Model ----
(***************************************************************************)
(* Group operations of the management server's account manager            *)
(* (management/server/group.go): SaveGroup(s), DeleteGroup(s),            *)
(* GroupAddPeer and GroupDeletePeer, run by concurrent callers against a   *)
(* transactional store under the per-account write lock.                  *)
(*                                                                         *)
(* A call is a sequence of steps of one caller: acquire the account lock,  *)
(* check the requester, run the store transaction (one atomic step: the    *)
(* store isolates it), store the queued audit events, trigger the peer     *)
(* update, release the lock and return.  Store calls made inside a         *)
(* transaction may fail: each transaction runs with a set F of failing     *)
(* store methods.                                                          *)
(***************************************************************************)
EXTENDS Integers, Sequences, FiniteSets, TLC

\* ---------------------------------------------------------------- bounds
MaxSerial == 2        \* calls start only while the account's serial is below
MaxFaults == 1        \* store methods that may fail within one transaction

\* ------------------------------------------------------------- universes
Accounts == {"a1", "a2"}
Procs    == {"c1", "c2"}
NoProc   == "none"

GroupIssuedAPI         == "api"
GroupIssuedIntegration == "integration"
GroupIssuedJWT         == "jwt"

UserRoleAdmin == "admin"
UserRoleUser  == "user"

\* the peers every account holds (fixed: the group operations never add or
\* remove a peer); "p9" is a peer ID no account holds
AccountPeers == {"p1", "p2"}

\* generated group IDs (xid.New()), each drawn at most once while in use
XIDs == <<"x1", "x2">>

\* error values, named after the constructor or type that builds them
NoErr == [kind |-> "nil", res |-> ""]

Err(kind) == [kind |-> kind, res |-> ""]

GroupLinkError(resource) == [kind |-> "GroupLinkError", res |-> resource]

\* the store methods called inside the transactions
StoreMethods ==
    { "GetGroupByID", "GetGroupByName", "GetPeerByID", "GetPeersByIDs",
      "GetUserByUserID", "GetAccountRoutes", "GetAccountNameServerGroups",
      "GetAccountPolicies", "GetAccountSetupKeys", "GetAccountUsers",
      "GetAccountDNSSettings", "GetAccountSettings",
      "IncrementNetworkSerial", "SaveGroup", "SaveGroups", "DeleteGroups",
      "Commit" }

\* the sets of at most k store methods
RECURSIVE FaultsUpTo(_)
FaultsUpTo(k) ==
    IF k = 0 THEN { {} }
    ELSE FaultsUpTo(k - 1) \cup
         { F \cup {m} : F \in FaultsUpTo(k - 1), m \in StoreMethods }

FaultSets == FaultsUpTo(MaxFaults)

\* ------------------------------------------------------- account contents
\* What the group operations only read: users, policies, routes, name-server
\* groups, setup keys and settings.  A scenario names the one reference to
\* group "g1" an account starts with.
Scenarios ==
    { "none", "policySrc", "policyDst", "routeGroups", "routePeerGroups",
      "dns", "setupKey", "user", "dnsDisabled", "validator" }

UserList(sc) ==
    << [id |-> "adm", accountID |-> "a1", role |-> UserRoleAdmin,
        isServiceUser |-> FALSE, autoGroups |-> {}],
       [id |-> "svc", accountID |-> "a1", role |-> UserRoleAdmin,
        isServiceUser |-> TRUE, autoGroups |-> {}],
       [id |-> "reg", accountID |-> "a1", role |-> UserRoleUser,
        isServiceUser |-> FALSE,
        autoGroups |-> IF sc = "user" THEN {"g1"} ELSE {}],
       [id |-> "bot", accountID |-> "a1", role |-> UserRoleUser,
        isServiceUser |-> TRUE, autoGroups |-> {}],
       [id |-> "out", accountID |-> "a2", role |-> UserRoleAdmin,
        isServiceUser |-> FALSE, autoGroups |-> {}],
       [id |-> "vis", accountID |-> "a2", role |-> UserRoleUser,
        isServiceUser |-> FALSE, autoGroups |-> {}] >>

Policies(sc) ==
    CASE sc = "policySrc" ->
           <<[name |-> "pol", rules |-> <<[sources |-> {"g1"}, destinations |-> {"ALL"}]>>]>>
      [] sc = "policyDst" ->
           <<[name |-> "pol", rules |-> <<[sources |-> {"ALL"}, destinations |-> {"g1"}]>>]>>
      [] OTHER -> << >>

Routes(sc) ==
    CASE sc = "routeGroups" ->
           <<[netID |-> "net", groups |-> {"g1"}, peerGroups |-> {}]>>
      [] sc = "routePeerGroups" ->
           <<[netID |-> "net", groups |-> {"ALL"}, peerGroups |-> {"g1"}]>>
      [] OTHER -> << >>

NameServerGroups(sc) ==
    IF sc = "dns" THEN <<[name |-> "ns", groups |-> {"g1"}]>> ELSE << >>

SetupKeys(sc) ==
    IF sc = "setupKey" THEN <<[name |-> "key", autoGroups |-> {"g1"}]>> ELSE << >>

DNSSettings(sc) ==
    [disabledManagementGroups |-> IF sc = "dnsDisabled" THEN {"g1"} ELSE {}]

Settings(sc) ==
    [integratedValidatorGroups |-> IF sc = "validator" THEN {"g1"} ELSE {}]

\* a group as stored: Peers is a list, in insertion order
Group(id, name, issued, peers) ==
    [id |-> id, name |-> name, issued |-> issued, peers |-> peers]

InitGroups ==
    [a \in Accounts |->
        IF a = "a1"
        THEN ( "ALL" :> Group("ALL", "All", GroupIssuedAPI, <<"p1", "p2">>) )
          @@ ( "g1"  :> Group("g1", "eng", GroupIssuedAPI, <<"p1">>) )
          @@ ( "g2"  :> Group("g2", "misc", GroupIssuedAPI, <<"p2">>) )
          @@ ( "g3"  :> Group("g3", "ext", GroupIssuedIntegration, << >>) )
        ELSE ( "ALL" :> Group("ALL", "All", GroupIssuedAPI, <<"p1", "p2">>) ) ]

\* --------------------------------------------------------- store reads
\* Every operator below binds what it computes once (an operator applied to
\* the computed value) and then only reads it.
Contains(list, x) == \E i \in 1..Len(list) : list[i] = x

Range(list) == { list[i] : i \in 1..Len(list) }

FoundUser(hits) ==
    IF hits = << >> THEN [err |-> Err("NotFound"), user |-> << >>]
    ELSE [err |-> NoErr, user |-> <<hits[1]>>]

GetUserByUserID(sc, F, userID) ==
    IF "GetUserByUserID" \in F THEN [err |-> Err("StoreFailure"), user |-> << >>]
    ELSE FoundUser(SelectSeq(UserList(sc), LAMBDA u : u.id = userID))

IsRegularUser(user) == user.role # UserRoleAdmin /\ ~user.isServiceUser

GetGroupByID(gs, F, groupID) ==
    IF "GetGroupByID" \in F THEN [err |-> Err("StoreFailure"), group |-> << >>]
    ELSE IF groupID \notin DOMAIN gs THEN [err |-> Err("NotFound"), group |-> << >>]
    ELSE [err |-> NoErr, group |-> <<gs[groupID]>>]

GetGroupByName(gs, F, name) ==
    IF "GetGroupByName" \in F THEN [err |-> Err("StoreFailure"), group |-> << >>]
    ELSE IF \A id \in DOMAIN gs : gs[id].name # name
    THEN [err |-> Err("NotFound"), group |-> << >>]
    ELSE [err |-> NoErr,
          group |-> <<gs[CHOOSE id \in DOMAIN gs : gs[id].name = name]>>]

GetPeerByID(F, peerID) ==
    IF "GetPeerByID" \in F THEN Err("StoreFailure")
    ELSE IF peerID \notin AccountPeers THEN Err("NotFound")
    ELSE NoErr

IsGroupAll(group) == group.name = "All"

\* Group.AddPeer: appends the peer unless the list holds it already
AddPeer(group, peerID) ==
    IF peerID = "" \/ Contains(group.peers, peerID)
    THEN [updated |-> FALSE, group |-> group]
    ELSE [updated |-> TRUE,
          group |-> [group EXCEPT !.peers = Append(@, peerID)]]

\* Group.RemovePeer: removes the first occurrence of the peer
RemovePeer(group, peerID) ==
    IF ~Contains(group.peers, peerID)
    THEN [updated |-> FALSE, group |-> group]
    ELSE [updated |-> TRUE,
          group |-> [group EXCEPT !.peers =
              LET i == CHOOSE k \in 1..Len(@) :
                          /\ @[k] = peerID
                          /\ \A m \in 1..(k - 1) : @[m] # peerID
              IN  [k \in 1..(Len(@) - 1) |-> IF k < i THEN @[k] ELSE @[k + 1]]]]

IncrementNetworkSerial(n) == n + 1

\* -------------------------------------------------------- linkage scans
NotLinked == [linked |-> FALSE, name |-> ""]

\* each scan answers whether an entry names the group, and the first that does
isGroupLinkedToRoute(sc, F, groupID) ==
    LET first(hits) ==
            IF hits = << >> THEN NotLinked
            ELSE [linked |-> TRUE, name |-> hits[1].netID]
    IN  IF "GetAccountRoutes" \in F THEN NotLinked
        ELSE first(SelectSeq(Routes(sc),
                     LAMBDA r : groupID \in r.groups \/ groupID \in r.peerGroups))

isGroupLinkedToPolicy(sc, F, groupID) ==
    LET first(hits) ==
            IF hits = << >> THEN NotLinked
            ELSE [linked |-> TRUE, name |-> hits[1].name]
    IN  IF "GetAccountPolicies" \in F THEN NotLinked
        ELSE first(SelectSeq(Policies(sc),
                     LAMBDA pol : \E i \in 1..Len(pol.rules) :
                         \/ groupID \in pol.rules[i].sources
                         \/ groupID \in pol.rules[i].destinations))

isGroupLinkedToDns(sc, F, groupID) ==
    LET first(hits) ==
            IF hits = << >> THEN NotLinked
            ELSE [linked |-> TRUE, name |-> hits[1].name]
    IN  IF "GetAccountNameServerGroups" \in F THEN NotLinked
        ELSE first(SelectSeq(NameServerGroups(sc),
                     LAMBDA ns : groupID \in ns.groups))

isGroupLinkedToSetupKey(sc, F, groupID) ==
    LET first(hits) ==
            IF hits = << >> THEN NotLinked
            ELSE [linked |-> TRUE, name |-> hits[1].name]
    IN  IF "GetAccountSetupKeys" \in F THEN NotLinked
        ELSE first(SelectSeq(SetupKeys(sc), LAMBDA k : groupID \in k.autoGroups))

isGroupLinkedToUser(sc, F, groupID) ==
    LET first(hits) ==
            IF hits = << >> THEN NotLinked
            ELSE [linked |-> TRUE, name |-> hits[1].id]
    IN  IF "GetAccountUsers" \in F THEN NotLinked
        ELSE first(SelectSeq(UserList(sc), LAMBDA u : groupID \in u.autoGroups))

checkGroupLinkedToSettings(sc, F, group) ==
    IF "GetAccountDNSSettings" \in F THEN Err("StoreFailure")
    ELSE IF group.id \in DNSSettings(sc).disabledManagementGroups
    THEN GroupLinkError("disabled DNS management groups")
    ELSE IF "GetAccountSettings" \in F THEN Err("StoreFailure")
    ELSE IF group.id \in Settings(sc).integratedValidatorGroups
    THEN GroupLinkError("integrated validator")
    ELSE NoErr

\* the head of validateDeleteGroup asking for the admin role only
IntegrationGuard_AdminOnly(sc, F, group, userID) ==
    LET guard(executing) ==
            IF executing.err # NoErr THEN executing.err
            ELSE IF executing.user[1].role # UserRoleAdmin
            THEN Err("PermissionDenied")
            ELSE NoErr
    IN  IF group.issued = GroupIssuedIntegration
        THEN guard(GetUserByUserID(sc, F, userID))
        ELSE NoErr

\* the head of validateDeleteGroup: an integration group goes only when the
\* initiator is an admin service user
IntegrationGuard(sc, F, group, userID) ==
    LET guard(executing) ==
            IF executing.err # NoErr THEN executing.err
            ELSE IF \/ executing.user[1].role # UserRoleAdmin
                    \/ ~executing.user[1].isServiceUser
            THEN Err("PermissionDenied")
            ELSE NoErr
    IN  IF group.issued = GroupIssuedIntegration
        THEN guard(GetUserByUserID(sc, F, userID))
        ELSE NoErr

\* validateDeleteGroup answering for the ALL group with the error of a linked
\* group
validateDeleteGroup_AllLinked(sc, F, group, userID) ==
    LET rest(denied) ==
            IF denied # NoErr THEN denied
            ELSE IF IsGroupAll(group) THEN GroupLinkError("group")
            ELSE IF isGroupLinkedToRoute(sc, F, group.id).linked
            THEN GroupLinkError("route")
            ELSE IF isGroupLinkedToDns(sc, F, group.id).linked
            THEN GroupLinkError("name server groups")
            ELSE IF isGroupLinkedToPolicy(sc, F, group.id).linked
            THEN GroupLinkError("policy")
            ELSE IF isGroupLinkedToSetupKey(sc, F, group.id).linked
            THEN GroupLinkError("setup key")
            ELSE IF isGroupLinkedToUser(sc, F, group.id).linked
            THEN GroupLinkError("user")
            ELSE checkGroupLinkedToSettings(sc, F, group)
    IN  rest(IntegrationGuard(sc, F, group, userID))

\* validateDeleteGroup without the check of the routes
validateDeleteGroup_NoRouteCheck(sc, F, group, userID) ==
    LET rest(denied) ==
            IF denied # NoErr THEN denied
            ELSE IF IsGroupAll(group) THEN Err("InvalidArgument")
            ELSE IF isGroupLinkedToDns(sc, F, group.id).linked
            THEN GroupLinkError("name server groups")
            ELSE IF isGroupLinkedToPolicy(sc, F, group.id).linked
            THEN GroupLinkError("policy")
            ELSE IF isGroupLinkedToSetupKey(sc, F, group.id).linked
            THEN GroupLinkError("setup key")
            ELSE IF isGroupLinkedToUser(sc, F, group.id).linked
            THEN GroupLinkError("user")
            ELSE checkGroupLinkedToSettings(sc, F, group)
    IN  rest(IntegrationGuard(sc, F, group, userID))

validateDeleteGroup(sc, F, group, userID) ==
    LET rest(denied) ==
            IF denied # NoErr THEN denied
            ELSE IF IsGroupAll(group) THEN Err("InvalidArgument")
            ELSE IF isGroupLinkedToRoute(sc, F, group.id).linked
            THEN GroupLinkError("route")
            ELSE IF isGroupLinkedToDns(sc, F, group.id).linked
            THEN GroupLinkError("name server groups")
            ELSE IF isGroupLinkedToPolicy(sc, F, group.id).linked
            THEN GroupLinkError("policy")
            ELSE IF isGroupLinkedToSetupKey(sc, F, group.id).linked
            THEN GroupLinkError("setup key")
            ELSE IF isGroupLinkedToUser(sc, F, group.id).linked
            THEN GroupLinkError("user")
            ELSE checkGroupLinkedToSettings(sc, F, group)
    IN  rest(IntegrationGuard(sc, F, group, userID))

\* areGroupChangesAffectPeers consulting the setup keys as well
areGroupChangesAffectPeers_WithSetupKeys(sc, F, groupIDs) ==
    IF Len(groupIDs) = 0 THEN [affects |-> FALSE, err |-> NoErr]
    ELSE IF "GetAccountDNSSettings" \in F
    THEN [affects |-> FALSE, err |-> Err("StoreFailure")]
    ELSE [affects |->
            \E i \in 1..Len(groupIDs) :
                \/ groupIDs[i] \in DNSSettings(sc).disabledManagementGroups
                \/ isGroupLinkedToDns(sc, F, groupIDs[i]).linked
                \/ isGroupLinkedToPolicy(sc, F, groupIDs[i]).linked
                \/ isGroupLinkedToRoute(sc, F, groupIDs[i]).linked
                \/ isGroupLinkedToSetupKey(sc, F, groupIDs[i]).linked,
          err |-> NoErr]

areGroupChangesAffectPeers(sc, F, groupIDs) ==
    IF Len(groupIDs) = 0 THEN [affects |-> FALSE, err |-> NoErr]
    ELSE IF "GetAccountDNSSettings" \in F
    THEN [affects |-> FALSE, err |-> Err("StoreFailure")]
    ELSE [affects |->
            \E i \in 1..Len(groupIDs) :
                \/ groupIDs[i] \in DNSSettings(sc).disabledManagementGroups
                \/ isGroupLinkedToDns(sc, F, groupIDs[i]).linked
                \/ isGroupLinkedToPolicy(sc, F, groupIDs[i]).linked
                \/ isGroupLinkedToRoute(sc, F, groupIDs[i]).linked,
          err |-> NoErr]

\* ------------------------------------------------------- SaveGroups body
Event(kind, target, groupID) == [kind |-> kind, target |-> target, group |-> groupID]

\* difference returns the elements of a that are not in b
difference(a, b) == SelectSeq(a, LAMBDA x : ~Contains(b, x))

\* xid.New(): an ID no group in use carries
NewXID(used) ==
    IF \A i \in 1..Len(XIDs) : XIDs[i] \in used THEN "x0"
    ELSE XIDs[CHOOSE i \in 1..Len(XIDs) :
                 XIDs[i] \notin used /\ \A k \in 1..(i - 1) : XIDs[k] \in used]

\* validateNewGroup without the look-up of the name
validateNewGroup_NoNameCheck(gs, F, newGroup, used) ==
    LET peersOf(named) ==
            IF \E i \in 1..Len(named.peers) : GetPeerByID(F, named.peers[i]) # NoErr
            THEN [err |-> Err("InvalidArgument"), group |-> named]
            ELSE [err |-> NoErr, group |-> named]
    IN  IF newGroup.id = "" /\ newGroup.issued # GroupIssuedAPI
        THEN [err |-> Err("InvalidArgument"), group |-> newGroup]
        ELSE IF newGroup.id = ""
        THEN peersOf([newGroup EXCEPT !.id = NewXID(used)])
        ELSE peersOf(newGroup)

validateNewGroup(gs, F, newGroup, used) ==
    LET peersOf(named) ==
            IF \E i \in 1..Len(named.peers) : GetPeerByID(F, named.peers[i]) # NoErr
            THEN [err |-> Err("InvalidArgument"), group |-> named]
            ELSE [err |-> NoErr, group |-> named]
        fresh(existing) ==
            IF existing.err \notin {NoErr, Err("NotFound")}
            THEN [err |-> existing.err, group |-> newGroup]
            ELSE IF existing.group # << >>
            THEN [err |-> Err("AlreadyExists"), group |-> newGroup]
            ELSE peersOf([newGroup EXCEPT !.id = NewXID(used)])
    IN  IF newGroup.id = "" /\ newGroup.issued # GroupIssuedAPI
        THEN [err |-> Err("InvalidArgument"), group |-> newGroup]
        ELSE IF newGroup.id = ""
        THEN fresh(GetGroupByName(gs, F, newGroup.name))
        ELSE peersOf(newGroup)

\* the events of the peers in list that the store holds
PeerEvents(list, kind, groupID) ==
    LET events(known) == [i \in 1..Len(known) |-> Event(kind, known[i], groupID)]
    IN  events(SelectSeq(list, LAMBDA x : x \in AccountPeers))

prepareGroupEvents(gs, F, newGroup) ==
    LET build(old) ==
            IF old.err = NoErr
            THEN PeerEvents(difference(newGroup.peers, old.group[1].peers),
                            "GroupAddedToPeer", newGroup.id)
                 \o PeerEvents(difference(old.group[1].peers, newGroup.peers),
                               "GroupRemovedFromPeer", newGroup.id)
            ELSE <<Event("GroupCreated", newGroup.id, newGroup.id)>>
                 \o PeerEvents(newGroup.peers, "GroupAddedToPeer", newGroup.id)
    IN  IF "GetPeersByIDs" \in F THEN << >>
        ELSE build(GetGroupByID(gs, F, newGroup.id))

\* the loop over the batch: stops at the first group that fails validation
RECURSIVE SaveScan(_, _, _, _, _)
SaveScan(gs, F, batch, i, acc) ==
    LET step(v) ==
            IF v.err # NoErr THEN [acc EXCEPT !.err = v.err]
            ELSE SaveScan(gs, F, batch, i + 1,
                    [acc EXCEPT
                       !.groupsToSave = Append(@, v.group),
                       !.groupIDs = Append(@, v.group.id),
                       !.eventsToStore = @ \o prepareGroupEvents(gs, F, v.group)])
    IN  IF i > Len(batch) THEN acc
        ELSE step(validateNewGroup(gs, F, batch[i],
                                   DOMAIN gs \cup Range(acc.groupIDs)))

\* Store.SaveGroups: each saved group replaces the stored one of its ID
RECURSIVE StoreSaveGroups(_, _, _)
StoreSaveGroups(gs, list, i) ==
    IF i > Len(list) THEN gs
    ELSE StoreSaveGroups(
            [id \in DOMAIN gs \cup {list[i].id} |->
                IF id = list[i].id THEN list[i] ELSE gs[id]], list, i + 1)

\* what a transaction leaves: its error, the account's groups and serial
\* after it, whether it committed writes, and what its closure assigned
TxResult(err, gs, n, wrote, events, update, allErrors, deleted) ==
    [err |-> err, groups |-> gs, serial |-> n, wrote |-> wrote,
     eventsToStore |-> events, updateAccountPeers |-> update,
     allErrors |-> allErrors, deletedGroups |-> deleted]

\* SaveGroups writing the groups validated before the one that failed
SaveGroupsTx_SavesValidPrefix(sc, gs, n, F, batch) ==
    LET write(scan, impact) ==
            IF impact.err # NoErr
            THEN TxResult(impact.err, gs, n, FALSE, scan.eventsToStore, FALSE,
                          << >>, << >>)
            ELSE IF \/ "IncrementNetworkSerial" \in F
                    \/ "SaveGroups" \in F
                    \/ "Commit" \in F
            THEN TxResult(Err("StoreFailure"), gs, n, FALSE, scan.eventsToStore,
                          impact.affects, << >>, << >>)
            ELSE TxResult(NoErr, StoreSaveGroups(gs, scan.groupsToSave, 1),
                          IncrementNetworkSerial(n), TRUE, scan.eventsToStore,
                          impact.affects, << >>, << >>)
        finish(scan) ==
            IF scan.err # NoErr
            THEN TxResult(scan.err, StoreSaveGroups(gs, scan.groupsToSave, 1), n,
                          scan.groupsToSave # << >>, scan.eventsToStore, FALSE,
                          << >>, << >>)
            ELSE write(scan, areGroupChangesAffectPeers(sc, F, scan.groupIDs))
    IN  finish(SaveScan(gs, F, batch, 1,
                  [err |-> NoErr, groupsToSave |-> << >>, groupIDs |-> << >>,
                   eventsToStore |-> << >>]))

SaveGroupsTx(sc, gs, n, F, batch) ==
    LET write(scan, impact) ==
            IF impact.err # NoErr
            THEN TxResult(impact.err, gs, n, FALSE, scan.eventsToStore, FALSE,
                          << >>, << >>)
            ELSE IF \/ "IncrementNetworkSerial" \in F
                    \/ "SaveGroups" \in F
                    \/ "Commit" \in F
            THEN TxResult(Err("StoreFailure"), gs, n, FALSE, scan.eventsToStore,
                          impact.affects, << >>, << >>)
            ELSE TxResult(NoErr, StoreSaveGroups(gs, scan.groupsToSave, 1),
                          IncrementNetworkSerial(n), TRUE, scan.eventsToStore,
                          impact.affects, << >>, << >>)
        finish(scan) ==
            IF scan.err # NoErr
            THEN TxResult(scan.err, gs, n, FALSE, scan.eventsToStore, FALSE,
                          << >>, << >>)
            ELSE write(scan, areGroupChangesAffectPeers(sc, F, scan.groupIDs))
    IN  finish(SaveScan(gs, F, batch, 1,
                  [err |-> NoErr, groupsToSave |-> << >>, groupIDs |-> << >>,
                   eventsToStore |-> << >>]))

\* ----------------------------------------------------- DeleteGroups body
RECURSIVE DeleteScan(_, _, _, _, _, _, _)
DeleteScan(sc, gs, F, userID, groupIDs, i, acc) ==
    LET next(got, bad) ==
            DeleteScan(sc, gs, F, userID, groupIDs, i + 1,
                IF bad # NoErr
                THEN [acc EXCEPT !.allErrors = Append(@, bad)]
                ELSE [acc EXCEPT
                        !.groupIDsToDelete = Append(@, groupIDs[i]),
                        !.deletedGroups = Append(@, got.group[1])])
        step(got) ==
            IF got.err # NoErr THEN next(got, got.err)
            ELSE next(got, validateDeleteGroup(sc, F, got.group[1], userID))
    IN  IF i > Len(groupIDs) THEN acc
        ELSE step(GetGroupByID(gs, F, groupIDs[i]))

\* DeleteGroups deleting nothing once any ID failed its validation
DeleteGroupsTx_AllOrNothing(sc, gs, n, F, userID, groupIDs) ==
    LET finish(scan) ==
            IF \/ "IncrementNetworkSerial" \in F
               \/ "DeleteGroups" \in F
               \/ "Commit" \in F
            THEN TxResult(Err("StoreFailure"), gs, n, FALSE, << >>, FALSE,
                          scan.allErrors, scan.deletedGroups)
            ELSE IF scan.allErrors # << >>
            THEN TxResult(NoErr, gs, n, FALSE, << >>, FALSE, scan.allErrors, << >>)
            ELSE TxResult(NoErr,
                          [id \in DOMAIN gs \ Range(scan.groupIDsToDelete) |-> gs[id]],
                          IncrementNetworkSerial(n), TRUE, << >>, FALSE,
                          scan.allErrors, scan.deletedGroups)
    IN  finish(DeleteScan(sc, gs, F, userID, groupIDs, 1,
                  [allErrors |-> << >>, groupIDsToDelete |-> << >>,
                   deletedGroups |-> << >>]))

DeleteGroupsTx(sc, gs, n, F, userID, groupIDs) ==
    LET finish(scan) ==
            IF \/ "IncrementNetworkSerial" \in F
               \/ "DeleteGroups" \in F
               \/ "Commit" \in F
            THEN TxResult(Err("StoreFailure"), gs, n, FALSE, << >>, FALSE,
                          scan.allErrors, scan.deletedGroups)
            ELSE TxResult(NoErr,
                          [id \in DOMAIN gs \ Range(scan.groupIDsToDelete) |-> gs[id]],
                          IncrementNetworkSerial(n), TRUE, << >>, FALSE,
                          scan.allErrors, scan.deletedGroups)
    IN  finish(DeleteScan(sc, gs, F, userID, groupIDs, 1,
                  [allErrors |-> << >>, groupIDsToDelete |-> << >>,
                   deletedGroups |-> << >>]))

\* ----------------------------------------------------- GroupAddPeer body
\* GroupAddPeer incrementing the serial only when the change affects peers
GroupAddPeerTx_BumpOnImpact(sc, gs, n, F, groupID, peerID) ==
    LET write(group, impact) ==
            IF impact.err # NoErr
            THEN TxResult(impact.err, gs, n, FALSE, << >>, FALSE, << >>, << >>)
            ELSE IF \/ "IncrementNetworkSerial" \in F
                    \/ "SaveGroup" \in F
                    \/ "Commit" \in F
            THEN TxResult(Err("StoreFailure"), gs, n, FALSE, << >>,
                          impact.affects, << >>, << >>)
            ELSE TxResult(NoErr, StoreSaveGroups(gs, <<group>>, 1),
                          IF impact.affects THEN IncrementNetworkSerial(n) ELSE n,
                          TRUE, << >>, impact.affects, << >>, << >>)
        save(edit) ==
            IF ~edit.updated
            THEN IF "Commit" \in F
                 THEN TxResult(Err("StoreFailure"), gs, n, FALSE, << >>, FALSE,
                               << >>, << >>)
                 ELSE TxResult(NoErr, gs, n, FALSE, << >>, FALSE, << >>, << >>)
            ELSE write(edit.group, areGroupChangesAffectPeers(sc, F, <<groupID>>))
        read(got) ==
            IF got.err # NoErr
            THEN TxResult(got.err, gs, n, FALSE, << >>, FALSE, << >>, << >>)
            ELSE save(AddPeer(got.group[1], peerID))
    IN  read(GetGroupByID(gs, F, groupID))

\* GroupAddPeer saving the group whether or not AddPeer changed it
GroupAddPeerTx_SaveUnchanged(sc, gs, n, F, groupID, peerID) ==
    LET write(group, impact) ==
            IF impact.err # NoErr
            THEN TxResult(impact.err, gs, n, FALSE, << >>, FALSE, << >>, << >>)
            ELSE IF \/ "IncrementNetworkSerial" \in F
                    \/ "SaveGroup" \in F
                    \/ "Commit" \in F
            THEN TxResult(Err("StoreFailure"), gs, n, FALSE, << >>,
                          impact.affects, << >>, << >>)
            ELSE TxResult(NoErr, StoreSaveGroups(gs, <<group>>, 1),
                          IncrementNetworkSerial(n), TRUE, << >>,
                          impact.affects, << >>, << >>)
        save(edit) ==
            write(edit.group, areGroupChangesAffectPeers(sc, F, <<groupID>>))
        read(got) ==
            IF got.err # NoErr
            THEN TxResult(got.err, gs, n, FALSE, << >>, FALSE, << >>, << >>)
            ELSE save(AddPeer(got.group[1], peerID))
    IN  read(GetGroupByID(gs, F, groupID))

\* the closure GroupAddPeer runs in its transaction
GroupAddPeerTx(sc, gs, n, F, groupID, peerID) ==
    LET write(group, impact) ==
            IF impact.err # NoErr
            THEN TxResult(impact.err, gs, n, FALSE, << >>, FALSE, << >>, << >>)
            ELSE IF \/ "IncrementNetworkSerial" \in F
                    \/ "SaveGroup" \in F
                    \/ "Commit" \in F
            THEN TxResult(Err("StoreFailure"), gs, n, FALSE, << >>,
                          impact.affects, << >>, << >>)
            ELSE TxResult(NoErr, StoreSaveGroups(gs, <<group>>, 1),
                          IncrementNetworkSerial(n), TRUE, << >>,
                          impact.affects, << >>, << >>)
        save(edit) ==
            IF ~edit.updated
            THEN IF "Commit" \in F
                 THEN TxResult(Err("StoreFailure"), gs, n, FALSE, << >>, FALSE,
                               << >>, << >>)
                 ELSE TxResult(NoErr, gs, n, FALSE, << >>, FALSE, << >>, << >>)
            ELSE write(edit.group, areGroupChangesAffectPeers(sc, F, <<groupID>>))
        read(got) ==
            IF got.err # NoErr
            THEN TxResult(got.err, gs, n, FALSE, << >>, FALSE, << >>, << >>)
            ELSE save(AddPeer(got.group[1], peerID))
    IN  read(GetGroupByID(gs, F, groupID))

\* -------------------------------------------------- GroupDeletePeer body
\* the closure GroupDeletePeer runs in its transaction
GroupDeletePeerTx(sc, gs, n, F, groupID, peerID) ==
    LET write(group, impact) ==
            IF impact.err # NoErr
            THEN TxResult(impact.err, gs, n, FALSE, << >>, FALSE, << >>, << >>)
            ELSE IF \/ "IncrementNetworkSerial" \in F
                    \/ "SaveGroup" \in F
                    \/ "Commit" \in F
            THEN TxResult(Err("StoreFailure"), gs, n, FALSE, << >>,
                          impact.affects, << >>, << >>)
            ELSE TxResult(NoErr, StoreSaveGroups(gs, <<group>>, 1),
                          IncrementNetworkSerial(n), TRUE, << >>,
                          impact.affects, << >>, << >>)
        save(edit) ==
            IF ~edit.updated
            THEN IF "Commit" \in F
                 THEN TxResult(Err("StoreFailure"), gs, n, FALSE, << >>, FALSE,
                               << >>, << >>)
                 ELSE TxResult(NoErr, gs, n, FALSE, << >>, FALSE, << >>, << >>)
            ELSE write(edit.group, areGroupChangesAffectPeers(sc, F, <<groupID>>))
        read(got) ==
            IF got.err # NoErr
            THEN TxResult(got.err, gs, n, FALSE, << >>, FALSE, << >>, << >>)
            ELSE save(RemovePeer(got.group[1], peerID))
    IN  read(GetGroupByID(gs, F, groupID))

\* ------------------------------------------------- the store calls made
\* The store calls a closure makes, in order, while the methods in F fail.
\* A trace ends with the call whose error ends the closure, or with the
\* commit.
\* the calls of the loop of areGroupChangesAffectPeers from position i on
RECURSIVE ImpactLoopCalls(_, _, _, _)
ImpactLoopCalls(sc, F, groupIDs, i) ==
    IF i > Len(groupIDs) THEN << >>
    ELSE IF groupIDs[i] \in DNSSettings(sc).disabledManagementGroups THEN << >>
    ELSE IF isGroupLinkedToDns(sc, F, groupIDs[i]).linked
    THEN <<"GetAccountNameServerGroups">>
    ELSE IF isGroupLinkedToPolicy(sc, F, groupIDs[i]).linked
    THEN <<"GetAccountNameServerGroups", "GetAccountPolicies">>
    ELSE IF isGroupLinkedToRoute(sc, F, groupIDs[i]).linked
    THEN <<"GetAccountNameServerGroups", "GetAccountPolicies", "GetAccountRoutes">>
    ELSE <<"GetAccountNameServerGroups", "GetAccountPolicies", "GetAccountRoutes">>
         \o ImpactLoopCalls(sc, F, groupIDs, i + 1)

areGroupChangesAffectPeersCalls(sc, F, groupIDs) ==
    IF Len(groupIDs) = 0 THEN << >>
    ELSE IF "GetAccountDNSSettings" \in F THEN <<"GetAccountDNSSettings">>
    ELSE <<"GetAccountDNSSettings">> \o ImpactLoopCalls(sc, F, groupIDs, 1)

validateNewGroupCalls(gs, F, newGroup) ==
    LET upTo(bad) ==
            IF bad = {} THEN Len(newGroup.peers)
            ELSE CHOOSE k \in bad : \A m \in bad : k <= m
        peers(n) == [i \in 1..n |-> "GetPeerByID"]
        peersOf ==
            peers(upTo({ i \in 1..Len(newGroup.peers) :
                           GetPeerByID(F, newGroup.peers[i]) # NoErr }))
        fresh(existing) ==
            IF \/ existing.err \notin {NoErr, Err("NotFound")}
               \/ existing.group # << >>
            THEN <<"GetGroupByName">>
            ELSE <<"GetGroupByName">> \o peersOf
    IN  IF newGroup.id = "" /\ newGroup.issued # GroupIssuedAPI THEN << >>
        ELSE IF newGroup.id = ""
        THEN fresh(GetGroupByName(gs, F, newGroup.name))
        ELSE peersOf

\* prepareGroupEvents reads the old group and the peers, whatever they answer
prepareGroupEventsCalls == <<"GetGroupByID", "GetPeersByIDs">>

\* the calls of the loop of SaveGroups from position i on, the IDs it
\* collects, and whether it ran to the end of the batch
RECURSIVE SaveLoopCalls(_, _, _, _, _)
SaveLoopCalls(gs, F, batch, i, ids) ==
    LET rest(v, r) ==
            [ok |-> r.ok, ids |-> r.ids,
             calls |-> validateNewGroupCalls(gs, F, batch[i])
                          \o prepareGroupEventsCalls \o r.calls]
        step(v) ==
            IF v.err # NoErr
            THEN [ok |-> FALSE, ids |-> ids,
                  calls |-> validateNewGroupCalls(gs, F, batch[i])]
            ELSE rest(v, SaveLoopCalls(gs, F, batch, i + 1, Append(ids, v.group.id)))
    IN  IF i > Len(batch) THEN [ok |-> TRUE, ids |-> ids, calls |-> << >>]
        ELSE step(validateNewGroup(gs, F, batch[i], DOMAIN gs \cup Range(ids)))

\* the increment of the serial, the write and the commit
WriteCalls(F, write) ==
    IF "IncrementNetworkSerial" \in F THEN <<"IncrementNetworkSerial">>
    ELSE IF write \in F THEN <<"IncrementNetworkSerial", write>>
    ELSE <<"IncrementNetworkSerial", write, "Commit">>

\* the impact predicate and, unless it fails, the writes after it
ImpactAndWriteCalls(sc, F, groupIDs, write) ==
    IF areGroupChangesAffectPeers(sc, F, groupIDs).err # NoErr
    THEN areGroupChangesAffectPeersCalls(sc, F, groupIDs)
    ELSE areGroupChangesAffectPeersCalls(sc, F, groupIDs) \o WriteCalls(F, write)

SaveGroupsCalls(sc, gs, F, batch) ==
    LET tail(loop) ==
            IF ~loop.ok THEN loop.calls
            ELSE loop.calls \o ImpactAndWriteCalls(sc, F, loop.ids, "SaveGroups")
    IN  tail(SaveLoopCalls(gs, F, batch, 1, << >>))

\* GroupAddPeer and GroupDeletePeer: updated says whether the edit changes
\* the group
MembershipEditCalls(sc, gs, F, groupID, updated) ==
    IF GetGroupByID(gs, F, groupID).err # NoErr THEN <<"GetGroupByID">>
    ELSE IF ~updated THEN <<"GetGroupByID", "Commit">>
    ELSE <<"GetGroupByID">> \o ImpactAndWriteCalls(sc, F, <<groupID>>, "SaveGroup")

validateDeleteGroupCalls(sc, F, group, userID) ==
    LET guard == IF group.issued = GroupIssuedIntegration
                 THEN <<"GetUserByUserID">> ELSE << >>
        settings ==
            IF \/ "GetAccountDNSSettings" \in F
               \/ group.id \in DNSSettings(sc).disabledManagementGroups
            THEN <<"GetAccountDNSSettings">>
            ELSE <<"GetAccountDNSSettings", "GetAccountSettings">>
        scans ==
            IF isGroupLinkedToRoute(sc, F, group.id).linked
            THEN <<"GetAccountRoutes">>
            ELSE IF isGroupLinkedToDns(sc, F, group.id).linked
            THEN <<"GetAccountRoutes", "GetAccountNameServerGroups">>
            ELSE IF isGroupLinkedToPolicy(sc, F, group.id).linked
            THEN <<"GetAccountRoutes", "GetAccountNameServerGroups",
                   "GetAccountPolicies">>
            ELSE IF isGroupLinkedToSetupKey(sc, F, group.id).linked
            THEN <<"GetAccountRoutes", "GetAccountNameServerGroups",
                   "GetAccountPolicies", "GetAccountSetupKeys">>
            ELSE IF isGroupLinkedToUser(sc, F, group.id).linked
            THEN <<"GetAccountRoutes", "GetAccountNameServerGroups",
                   "GetAccountPolicies", "GetAccountSetupKeys", "GetAccountUsers">>
            ELSE <<"GetAccountRoutes", "GetAccountNameServerGroups",
                   "GetAccountPolicies", "GetAccountSetupKeys", "GetAccountUsers">>
                 \o settings
    IN  IF IntegrationGuard(sc, F, group, userID) # NoErr \/ IsGroupAll(group)
        THEN guard
        ELSE guard \o scans

RECURSIVE DeleteLoopCalls(_, _, _, _, _, _)
DeleteLoopCalls(sc, gs, F, userID, groupIDs, i) ==
    LET step(got) ==
            IF got.err # NoErr THEN <<"GetGroupByID">>
            ELSE <<"GetGroupByID">>
                 \o validateDeleteGroupCalls(sc, F, got.group[1], userID)
    IN  IF i > Len(groupIDs) THEN << >>
        ELSE step(GetGroupByID(gs, F, groupIDs[i]))
             \o DeleteLoopCalls(sc, gs, F, userID, groupIDs, i + 1)

DeleteGroupsCalls(sc, gs, F, userID, groupIDs) ==
    DeleteLoopCalls(sc, gs, F, userID, groupIDs, 1) \o WriteCalls(F, "DeleteGroups")

\* ------------------------------------------------------------- requests
MaxBatch == 2         \* groups, or group IDs, in one SaveGroups/DeleteGroups call

\* a call: its arguments and its context, live until it is cancelled
Request(op, account, user, batch, ids, groupID, peerID) ==
    [op |-> op, account |-> account, user |-> user, groups |-> batch,
     ids |-> ids, group |-> groupID, peer |-> peerID, ctx |-> "live"]

NoReq == Request("", "", "", << >>, << >>, "", "")

\* the sequences over S of length 1..n
RECURSIVE Batches(_, _)
Batches(S, n) ==
    IF n = 0 THEN {}
    ELSE { <<x>> : x \in S } \cup
         { Append(b, x) : b \in Batches(S, n - 1), x \in S }

\* the groups callers ask SaveGroups to save: two new API groups (the second
\* carries the name of "g1"), a new integration group without ID, "g2"
\* renamed, "g1" with another member, "g2" listing a peer nobody holds, "g2"
\* listing its peer twice, and the ALL group under another name
SaveInputs ==
    { Group("", "dev", GroupIssuedAPI, <<"p1", "p2">>),
      Group("", "eng", GroupIssuedAPI, << >>),
      Group("", "idp", GroupIssuedIntegration, << >>),
      Group("g2", "ops", GroupIssuedAPI, <<"p2">>),
      Group("g1", "eng", GroupIssuedAPI, <<"p1", "p2">>),
      Group("g2", "misc", GroupIssuedAPI, <<"p9">>),
      Group("g2", "misc", GroupIssuedAPI, <<"p2", "p2">>),
      Group("ALL", "everyone", GroupIssuedAPI, <<"p1", "p2">>) }

\* the requesters: an admin, an admin service user, a regular user, an admin
\* and a regular user of the other account and a user ID the store does not
\* hold; "bot", a service user without the admin role, asks for deletions
\* and reads only
Privileged   == {"adm", "svc"}
Unprivileged == {"reg", "out", "vis", "ghost"}

\* batches of two draw from these
PairInputs ==
    { g \in SaveInputs : g.name \in {"dev", "idp", "ops"} \/ g.id = "g1" }

SaveRequests ==
    { Request("SaveGroups", "a1", "adm", b, << >>, "", "") :
        b \in Batches(SaveInputs, 1) \cup Batches(PairInputs, MaxBatch) }
    \cup
    { Request("SaveGroups", "a1", u, <<Group("g2", "ops", GroupIssuedAPI, <<"p2">>)>>,
              << >>, "", "") : u \in Unprivileged }

DeleteRequests ==
    { Request("DeleteGroups", "a1", u, << >>, ids, "", "") :
        u \in Privileged, ids \in Batches({"ALL", "g1", "g2", "g3", "nope"}, 1) }
    \cup
    { Request("DeleteGroups", "a1", "adm", << >>, ids, "", "") :
        ids \in Batches({"g1", "g2", "nope"}, MaxBatch) }
    \cup
    { Request("DeleteGroups", "a1", u, << >>, <<"g3", "g2">>, "", "") :
        u \in Privileged \cup {"bot"} }
    \cup
    { Request("DeleteGroups", "a1", u, << >>, <<"g2">>, "", "") : u \in Unprivileged }
    \cup
    { Request("DeleteGroups", "a1", "adm", << >>, << >>, "", "") }

AddPeerRequests ==
    { Request("GroupAddPeer", "a1", "", << >>, << >>, g, q) :
        g \in {"g1", "g2", "nope"}, q \in {"p1", "p2"} }

DeletePeerRequests ==
    { Request("GroupDeletePeer", "a1", "", << >>, << >>, g, q) :
        g \in {"g1", "g2", "nope"}, q \in {"p1", "p2"} }

VARIABLES
    scenario,   \* the account contents the group operations only read
    access,     \* the accessible-peers request in flight, and its answer
    ui,         \* the client UI: the exit nodes, their menu, the toggles in flight
    serial,     \* serial[a]: account a's network serial
    groups,     \* groups[a]: account a's groups, a map from group ID
    lock,       \* lock[a]: the caller holding a's write lock, or NoProc
    pc,         \* pc[p]: where caller p is in its call
    req,        \* req[p]: the call p is making
    loc,        \* loc[p]: the call's local variables and what it has done
    commits     \* commits[a]: the serial each transaction that wrote to
                \* account a left, in commit order

vars == <<scenario, access, ui, serial, groups, lock, pc, req, loc, commits>>

\* ---------------------------------------------------------------- state
NoLoc ==
    [pre |-> [serial |-> 0, groups |-> << >>], opened |-> FALSE,
     faulty |-> FALSE, wrote |-> FALSE, txErr |-> NoErr, eventsToStore |-> << >>,
     updateAccountPeers |-> FALSE, allErrors |-> << >>,
     deletedGroups |-> << >>, stored |-> << >>, updates |-> 0, ret |-> << >>,
     read |-> FALSE, data |-> {}, calls |-> << >>, failed |-> FALSE,
     failures |-> {}, cancelledAt |-> ""]

\* no accessible-peers request
NoAccess == [peers |-> {}, owner |-> << >>, callerUserID |-> "", peerID |-> "",
             status |-> 0, body |-> << >>]

\* no client UI
NoUI == [goos |-> ""]

Init ==
    /\ scenario \in Scenarios
    /\ access = NoAccess
    /\ ui = NoUI
    /\ serial = [a \in Accounts |-> 0]
    /\ groups = InitGroups
    /\ lock = [a \in Accounts |-> NoProc]
    /\ pc = [p \in Procs |-> "idle"]
    /\ req = [p \in Procs |-> NoReq]
    /\ loc = [p \in Procs |-> NoLoc]
    /\ commits = [a \in Accounts |-> << >>]

\* ------------------------------------------------------ the account lock
\* Store.AcquireWriteLockByUID: blocks until no caller holds the lock
AcquireWriteLockByUID(p, a) ==
    /\ lock[a] = NoProc
    /\ lock' = [lock EXCEPT ![a] = p]

\* the unlock function AcquireWriteLockByUID returned
unlock(p, a) ==
    lock' = [lock EXCEPT ![a] = IF @ = p THEN NoProc ELSE @]

\* a call starts: its request and fresh locals; pre is the account as the
\* call finds it
Begin(p, r, first) ==
    /\ pc[p] = "idle"
    /\ serial[r.account] < MaxSerial
    /\ Cardinality({ i \in 1..Len(r.groups) : r.groups[i].id = "" })
          <= Len(SelectSeq(XIDs, LAMBDA x : x \notin DOMAIN groups[r.account]))
    /\ req' = [req EXCEPT ![p] = r]
    /\ loc' = [loc EXCEPT ![p] =
                 [NoLoc EXCEPT !.pre = [serial |-> serial[r.account],
                                        groups |-> groups[r.account]],
                               !.cancelledAt =
                                   IF r.ctx = "cancelled" THEN "entry" ELSE ""]]
    /\ pc' = [pc EXCEPT ![p] = first]
    /\ UNCHANGED <<scenario, access, ui, serial, groups, commits>>

\* ---------------------------------------------------------- entry points
SaveGroup(p, r) ==
    /\ r.op = "SaveGroups"
    /\ AcquireWriteLockByUID(p, r.account)
    /\ Begin(p, r, "check")

DeleteGroup(p, r) ==
    /\ r.op = "DeleteGroups"
    /\ AcquireWriteLockByUID(p, r.account)
    /\ Begin(p, r, "check")

\* GroupAddPeer without the account lock
GroupAddPeer_NoLock(p, r) ==
    /\ r.op = "GroupAddPeer"
    /\ Begin(p, r, "tx")
    /\ UNCHANGED lock

\* GroupAddPeer taking one lock for all accounts
GroupAddPeer_GlobalLock(p, r) ==
    /\ r.op = "GroupAddPeer"
    /\ \A a \in Accounts : lock[a] = NoProc
    /\ lock' = [lock EXCEPT ![r.account] = p]
    /\ Begin(p, r, "tx")

GroupAddPeer(p, r) ==
    /\ r.op = "GroupAddPeer"
    /\ AcquireWriteLockByUID(p, r.account)
    /\ Begin(p, r, "tx")

GroupDeletePeer(p, r) ==
    /\ r.op = "GroupDeletePeer"
    /\ AcquireWriteLockByUID(p, r.account)
    /\ Begin(p, r, "tx")

\* ------------------------------------------------- the requester's check
\* the requester's check without the role check
RequesterError_NoRoleCheck(sc, accountID, userID) ==
    LET got == GetUserByUserID(sc, {}, userID)
    IN  IF got.err # NoErr THEN got.err
        ELSE IF got.user[1].accountID # accountID THEN Err("UserNotPartOfAccount")
        ELSE NoErr

\* the head of SaveGroups and of DeleteGroups
RequesterError(sc, accountID, userID) ==
    LET got == GetUserByUserID(sc, {}, userID)
    IN  IF got.err # NoErr THEN got.err
        ELSE IF got.user[1].accountID # accountID THEN Err("UserNotPartOfAccount")
        ELSE IF IsRegularUser(got.user[1]) THEN Err("AdminPermission")
        ELSE NoErr

CheckRequester(p) ==
    /\ pc[p] = "check"
    /\ LET err == IF req[p].ctx = "cancelled" THEN Err("StoreFailure")
                  ELSE RequesterError(scenario, req[p].account, req[p].user)
       IN  IF err # NoErr
           THEN /\ loc' = [loc EXCEPT ![p].ret = <<err>>]
                /\ pc' = [pc EXCEPT ![p] = "unlock"]
           ELSE /\ pc' = [pc EXCEPT ![p] = "tx"]
                /\ UNCHANGED loc
    /\ UNCHANGED <<scenario, access, ui, serial, groups, lock, req, commits>>

\* ------------------------------------------------------- the transaction
\* GroupAddPeer reading its group under context.Background() like every
\* other call it makes
CallerCtxCalls_Background(op) ==
    IF op \in {"GroupAddPeer", "GroupDeletePeer"} THEN {} ELSE StoreMethods

\* the store calls an operation makes with its caller's context: all of
\* them, but for the read of the group in GroupAddPeer and GroupDeletePeer,
\* made under context.Background()
CallerCtxCalls(op) ==
    IF op \in {"GroupAddPeer", "GroupDeletePeer"}
    THEN StoreMethods \ {"GetGroupByID"}
    ELSE StoreMethods

\* the store methods that may fail in a transaction of call r: any of the
\* fault sets under a live context, and under a cancelled one every call
\* that carries the caller's context
TxFaults(r) ==
    IF r.ctx = "cancelled" THEN {CallerCtxCalls(r.op)} ELSE FaultSets

RunTx(sc, gs, n, F, r) ==
    CASE r.op = "SaveGroups"      -> SaveGroupsTx(sc, gs, n, F, r.groups)
      [] r.op = "DeleteGroups"    -> DeleteGroupsTx(sc, gs, n, F, r.user, r.ids)
      [] r.op = "GroupAddPeer"    -> GroupAddPeerTx(sc, gs, n, F, r.group, r.peer)
      [] r.op = "GroupDeletePeer" -> GroupDeletePeerTx(sc, gs, n, F, r.group, r.peer)

\* the store calls the closure of call r makes
TxCalls(sc, gs, F, r) ==
    CASE r.op = "SaveGroups"      -> SaveGroupsCalls(sc, gs, F, r.groups)
      [] r.op = "DeleteGroups"    -> DeleteGroupsCalls(sc, gs, F, r.user, r.ids)
      [] r.op = "GroupAddPeer"    ->
            MembershipEditCalls(sc, gs, F, r.group,
                r.group \in DOMAIN gs /\ AddPeer(gs[r.group], r.peer).updated)
      [] r.op = "GroupDeletePeer" ->
            MembershipEditCalls(sc, gs, F, r.group,
                r.group \in DOMAIN gs /\ RemovePeer(gs[r.group], r.peer).updated)

\* the steps after the transaction taken without looking at its error
AfterTx_IgnoreError(op, res) ==
    IF op = "SaveGroups" /\ res.eventsToStore # << >> THEN "events"
    ELSE IF op = "DeleteGroups" /\ res.deletedGroups # << >> THEN "events"
    ELSE IF op # "DeleteGroups" /\ res.updateAccountPeers THEN "update"
    ELSE "unlock"

\* the propagation sink invoked before the queued audit events, which are
\* then never stored
AfterTx_PropagateFirst(op, res) ==
    IF res.err # NoErr THEN "unlock"
    ELSE IF op # "DeleteGroups" /\ res.updateAccountPeers THEN "update"
    ELSE IF op = "SaveGroups" /\ res.eventsToStore # << >> THEN "events"
    ELSE IF op = "DeleteGroups" /\ res.deletedGroups # << >> THEN "events"
    ELSE "unlock"

\* what the call does once ExecuteInTransaction has returned
AfterTx(op, res) ==
    IF res.err # NoErr THEN "unlock"
    ELSE IF op = "SaveGroups" /\ res.eventsToStore # << >> THEN "events"
    ELSE IF op = "DeleteGroups" /\ res.deletedGroups # << >> THEN "events"
    ELSE IF op # "DeleteGroups" /\ res.updateAccountPeers THEN "update"
    ELSE "unlock"

\* the error the call returns when it ends without a transaction error
Returned(op, l) ==
    IF op = "DeleteGroups" THEN l.allErrors ELSE << >>

\* the call's locals once the transaction has returned res, having made the
\* store calls in calls
Locals(l, op, F, res, calls) ==
    [l EXCEPT
       !.opened = TRUE,
       !.faulty = (F # {}),
       !.calls = calls,
       !.failed = (\E i \in 1..Len(calls) : calls[i] \in F),
       !.failures = Range(calls) \cap F,
       !.wrote = res.wrote,
       !.txErr = res.err,
       !.eventsToStore = res.eventsToStore,
       !.updateAccountPeers = res.updateAccountPeers,
       !.allErrors = res.allErrors,
       !.deletedGroups = res.deletedGroups,
       !.ret = IF res.err # NoErr THEN <<res.err>>
               ELSE IF AfterTx(op, res) = "unlock" /\ op = "DeleteGroups"
               THEN res.allErrors
               ELSE << >>]

\* Store.ExecuteInTransaction: runs the closure and commits what it wrote,
\* or, when the closure or the commit fails, leaves the store as it was
ExecuteInTransaction(p) ==
    /\ pc[p] = "tx"
    /\ \E F \in TxFaults(req[p]) :
         \E res \in { RunTx(scenario, groups[req[p].account],
                            serial[req[p].account], F, req[p]) } :
             /\ groups' = [groups EXCEPT ![req[p].account] = res.groups]
             /\ serial' = [serial EXCEPT ![req[p].account] = res.serial]
             /\ commits' = [commits EXCEPT ![req[p].account] =
                               IF res.wrote \/ res.serial # serial[req[p].account]
                               THEN Append(@, res.serial) ELSE @]
             /\ pc' = [pc EXCEPT ![p] = AfterTx(req[p].op, res)]
             /\ loc' = [loc EXCEPT ![p] =
                          Locals(@, req[p].op, F, res,
                                 TxCalls(scenario, groups[req[p].account], F, req[p]))]
    /\ UNCHANGED <<scenario, access, ui, lock, req>>

\* -------------------------------------------------- after the transaction
\* the audit events of the call: SaveGroups runs its queued closures,
\* DeleteGroups stores one GroupDeleted per deleted group
EventsOf(op, l) ==
    IF op = "DeleteGroups"
    THEN [i \in 1..Len(l.deletedGroups) |->
            Event("GroupDeleted", l.deletedGroups[i].id, l.deletedGroups[i].id)]
    ELSE l.eventsToStore

StoreEvent(p) ==
    /\ pc[p] = "events"
    /\ LET l  == [loc[p] EXCEPT !.stored = @ \o EventsOf(req[p].op, loc[p])]
           to == IF req[p].op # "DeleteGroups" /\ l.updateAccountPeers
                 THEN "update" ELSE "unlock"
       IN  /\ pc' = [pc EXCEPT ![p] = to]
           /\ loc' = [loc EXCEPT ![p] =
                        IF to = "unlock"
                        THEN [l EXCEPT !.ret = Returned(req[p].op, l)] ELSE l]
    /\ UNCHANGED <<scenario, access, ui, serial, groups, lock, req, commits>>

\* am.updateAccountPeers(ctx, accountID): the propagation sink
updateAccountPeers(p) ==
    /\ pc[p] = "update"
    /\ loc' = [loc EXCEPT ![p].updates = @ + 1,
                          ![p].ret = Returned(req[p].op, loc[p])]
    /\ pc' = [pc EXCEPT ![p] = "unlock"]
    /\ UNCHANGED <<scenario, access, ui, serial, groups, lock, req, commits>>

\* the deferred unlock, and the return to the caller
Return(p) ==
    /\ pc[p] = "unlock"
    /\ unlock(p, req[p].account)
    /\ pc' = [pc EXCEPT ![p] = "idle"]
    /\ req' = [req EXCEPT ![p] = NoReq]
    /\ loc' = [loc EXCEPT ![p] = NoLoc]
    /\ UNCHANGED <<scenario, access, ui, serial, groups, commits>>

\* ------------------------------------------------------------- the reads
\* GetGroup and GetAllGroups take no lock and open no transaction: they
\* check the requester and then read the store as it is at that moment.
\* CheckGroupPermissions asking for the role before the account
CheckGroupPermissions_RoleFirst(sc, accountID, userID) ==
    LET checked(got) ==
            IF got.err # NoErr THEN got.err
            ELSE IF IsRegularUser(got.user[1]) THEN Err("AdminPermission")
            ELSE IF got.user[1].accountID # accountID
            THEN Err("UserNotPartOfAccount")
            ELSE NoErr
    IN  checked(GetUserByUserID(sc, {}, userID))

\* CheckGroupPermissions without the comparison of the accounts
CheckGroupPermissions_NoAccountCheck(sc, accountID, userID) ==
    LET checked(got) ==
            IF got.err # NoErr THEN got.err
            ELSE IF IsRegularUser(got.user[1]) THEN Err("AdminPermission")
            ELSE NoErr
    IN  checked(GetUserByUserID(sc, {}, userID))

CheckGroupPermissions(sc, accountID, userID) ==
    LET checked(got) ==
            IF got.err # NoErr THEN got.err
            ELSE IF got.user[1].accountID # accountID
            THEN Err("UserNotPartOfAccount")
            ELSE IF IsRegularUser(got.user[1]) THEN Err("AdminPermission")
            ELSE NoErr
    IN  checked(GetUserByUserID(sc, {}, userID))

\* Store.GetAccountGroups: the groups of the account
GetAccountGroups(gs) == { gs[id] : id \in DOMAIN gs }

\* a read starts with the requester's check; a refused requester gets the
\* error at once
BeginRead(p, r, err) ==
    /\ pc[p] = "idle"
    /\ req' = [req EXCEPT ![p] = r]
    /\ loc' = [loc EXCEPT ![p] =
                 [NoLoc EXCEPT !.ret = IF err # NoErr THEN <<err>> ELSE << >>]]
    /\ pc' = [pc EXCEPT ![p] = IF err # NoErr THEN "done" ELSE "read"]
    /\ UNCHANGED <<scenario, access, ui, serial, groups, lock, commits>>

GetGroup(p, r) ==
    /\ r.op = "GetGroup"
    /\ BeginRead(p, r, CheckGroupPermissions(scenario, r.account, r.user))

GetAllGroups(p, r) ==
    /\ r.op = "GetAllGroups"
    /\ BeginRead(p, r, CheckGroupPermissions(scenario, r.account, r.user))

\* the store read of GetGroup (GetGroupByID) and of GetAllGroups
\* (GetAccountGroups), under LockingStrengthShare
StoreRead(p) ==
    /\ pc[p] = "read"
    /\ LET got == IF req[p].op = "GetGroup"
                  THEN GetGroupByID(groups[req[p].account], {}, req[p].group)
                  ELSE [err |-> NoErr, group |-> << >>]
       IN  loc' = [loc EXCEPT
                     ![p].read = TRUE,
                     ![p].data = IF req[p].op = "GetAllGroups"
                                 THEN GetAccountGroups(groups[req[p].account])
                                 ELSE Range(got.group),
                     ![p].ret = IF got.err # NoErr THEN <<got.err>> ELSE << >>]
    /\ pc' = [pc EXCEPT ![p] = "done"]
    /\ UNCHANGED <<scenario, access, ui, serial, groups, lock, req, commits>>

\* the read returns to its caller
ReturnRead(p) ==
    /\ pc[p] = "done"
    /\ pc' = [pc EXCEPT ![p] = "idle"]
    /\ req' = [req EXCEPT ![p] = NoReq]
    /\ loc' = [loc EXCEPT ![p] = NoLoc]
    /\ UNCHANGED <<scenario, access, ui, serial, groups, lock, commits>>

\* the calls that touch "g1", the group a scenario links
LinkRequests ==
    { Request("DeleteGroups", "a1", "adm", << >>, <<"g1">>, "", ""),
      Request("DeleteGroups", "a1", "adm", << >>, <<"g2", "g1">>, "", ""),
      Request("SaveGroups", "a1", "adm",
              <<Group("g1", "eng", GroupIssuedAPI, <<"p1", "p2">>)>>, << >>, "", ""),
      Request("GroupAddPeer", "a1", "", << >>, << >>, "g1", "p2"),
      Request("GroupDeletePeer", "a1", "", << >>, << >>, "g1", "p1") }

\* the calls made in a scenario: all of them where "g1" is free or is the
\* source of a policy rule, those that touch "g1" in the others
Requests ==
    IF scenario \in {"none", "policySrc"}
    THEN SaveRequests \cup DeleteRequests \cup AddPeerRequests \cup DeletePeerRequests
    ELSE LinkRequests

Next ==
    \E p \in Procs :
        \/ \E r \in Requests : SaveGroup(p, r)
        \/ \E r \in Requests : DeleteGroup(p, r)
        \/ \E r \in Requests : GroupAddPeer(p, r)
        \/ \E r \in Requests : GroupDeletePeer(p, r)
        \/ CheckRequester(p)
        \/ ExecuteInTransaction(p)
        \/ StoreEvent(p)
        \/ updateAccountPeers(p)
        \/ Return(p)

Spec == Init /\ [][Next]_vars

\* ------------------------------------------- reads and a second account
\* The calls above all write to account "a1", one at a time under its lock.
\* The specification below runs callers side by side: reads, which take no
\* lock, and calls on account "a2", next to a few calls on "a1".
\* the reads callers make: of "g1", by an admin, a service user without the
\* admin role, a regular user, a regular user of the other account and an
\* unknown user; of an ID no group carries; and of all groups
ReadRequests ==
    { Request("GetGroup", "a1", u, << >>, << >>, "g1", "") :
        u \in {"adm", "bot", "reg", "vis", "ghost"} }
    \cup
    { Request("GetGroup", "a1", "adm", << >>, << >>, "nope", "") }
    \cup
    { Request("GetAllGroups", "a1", u, << >>, << >>, "", "") :
        u \in {"adm", "reg", "vis"} }

\* the writes to "a1" made next to them: by its admin, by anyone, and by
\* users of the other account
NearRequests ==
    { Request("DeleteGroups", "a1", "adm", << >>, <<"g1">>, "", ""),
      Request("GroupAddPeer", "a1", "", << >>, << >>, "g1", "p2") }
    \cup
    { Request("SaveGroups", "a1", u,
              <<Group("g2", "ops", GroupIssuedAPI, <<"p2">>)>>, << >>, "", "") :
        u \in {"out", "vis"} }
    \cup
    { Request("DeleteGroups", "a1", u, << >>, <<"g2">>, "", "") :
        u \in {"out", "vis"} }

\* the calls on "a2", whose admin is "out"
FarRequests ==
    { Request("SaveGroups", "a2", "out",
              <<Group("", "dev", GroupIssuedAPI, <<"p1">>)>>, << >>, "", ""),
      Request("GroupDeletePeer", "a2", "", << >>, << >>, "ALL", "p1") }

ConcurrentRequests == ReadRequests \cup NearRequests \cup FarRequests

ConcurrentInit == Init /\ scenario \in {"none", "policySrc"}

ConcurrentNext ==
    \E p \in Procs :
        \/ \E r \in ConcurrentRequests : SaveGroup(p, r)
        \/ \E r \in ConcurrentRequests : DeleteGroup(p, r)
        \/ \E r \in ConcurrentRequests : GroupAddPeer(p, r)
        \/ \E r \in ConcurrentRequests : GroupDeletePeer(p, r)
        \/ \E r \in ConcurrentRequests : GetGroup(p, r)
        \/ \E r \in ConcurrentRequests : GetAllGroups(p, r)
        \/ CheckRequester(p)
        \/ ExecuteInTransaction(p)
        \/ StoreEvent(p)
        \/ updateAccountPeers(p)
        \/ Return(p)
        \/ StoreRead(p)
        \/ ReturnRead(p)

ConcurrentSpec == ConcurrentInit /\ [][ConcurrentNext]_vars

\* ----------------------------------------------------------- cancellation
\* The caller may cancel the context of its call at any moment.  The
\* operations never look at the context themselves: they hand it to the
\* store, whose calls fail under a cancelled context.
Cancel(p) ==
    /\ pc[p] \in {"check", "tx", "events", "update", "unlock"}
    /\ req[p].ctx = "live"
    /\ req' = [req EXCEPT ![p].ctx = "cancelled"]
    /\ loc' = [loc EXCEPT ![p].cancelledAt = pc[p]]
    /\ UNCHANGED <<scenario, access, ui, serial, groups, lock, pc, commits>>

\* the calls made under a context that may be cancelled, and the same calls
\* under a context cancelled before the call
CancelRequests ==
    LET calls == { Request("SaveGroups", "a1", "adm",
                           <<Group("", "dev", GroupIssuedAPI, <<"p1", "p2">>)>>,
                           << >>, "", ""),
                   Request("SaveGroups", "a1", "adm",
                           <<Group("g1", "eng", GroupIssuedAPI, <<"p1", "p2">>)>>,
                           << >>, "", ""),
                   Request("DeleteGroups", "a1", "adm", << >>, <<"g2">>, "", ""),
                   Request("GroupAddPeer", "a1", "", << >>, << >>, "g1", "p2"),
                   Request("GroupAddPeer", "a1", "", << >>, << >>, "g1", "p1"),
                   Request("GroupDeletePeer", "a1", "", << >>, << >>, "g1", "p1") }
    IN  calls \cup { [r EXCEPT !.ctx = "cancelled"] : r \in calls }

CancelNext ==
    \E p \in Procs :
        \/ \E r \in CancelRequests : SaveGroup(p, r)
        \/ \E r \in CancelRequests : DeleteGroup(p, r)
        \/ \E r \in CancelRequests : GroupAddPeer(p, r)
        \/ \E r \in CancelRequests : GroupDeletePeer(p, r)
        \/ Cancel(p)
        \/ CheckRequester(p)
        \/ ExecuteInTransaction(p)
        \/ StoreEvent(p)
        \/ updateAccountPeers(p)
        \/ Return(p)

CancelSpec == ConcurrentInit /\ [][CancelNext]_vars

\* ------------------------------------------------------ accessible peers
\* GET /api/peers/{peerId}/accessible-peers, over the account of the
\* handler's test: three users, the peers handed to initTestMetaData all in
\* group1, and one enabled policy from group1 to group1.
adminUser   == "admin_user"
regularUser == "regular_user"
serviceUser == "service_user"

StatusOK == 200

\* account.Users: an admin, a regular user, and a regular user flagged as
\* a service user
TestUsers ==
    [u \in {adminUser, regularUser, serviceUser} |->
        [role |-> IF u = adminUser THEN UserRoleAdmin ELSE UserRoleUser,
         isServiceUser |-> (u = serviceUser)]]

TestPeerIDs == {"peer1", "peer2", "peer3"}

\* peer1 owned by the admin as well
TestPeers_AdminOwnsPeer1 ==
    [x \in TestPeerIDs |-> IF x = "peer3" THEN regularUser ELSE adminUser]

\* the UserID of peer1, peer2, peer3 of TestGetAccessiblePeers
TestPeers ==
    [x \in TestPeerIDs |-> IF x = "peer2" THEN adminUser ELSE regularUser]

\* account.Policies
TestPolicies ==
    << [enabled |-> TRUE,
        rules |-> << [enabled |-> TRUE, sources |-> {"group1"},
                      destinations |-> {"group1"}, bidirectional |-> TRUE] >>] >>

\* account.Groups: group1 holds every peer of the account
TestGroups(peers) == [g \in {"group1"} |-> peers]

\* the table of TestGetAccessiblePeers
tt ==
    << [peerID |-> "peer1", callerUserID |-> regularUser,
        expectedStatus |-> StatusOK, expectedPeers |-> <<"peer2", "peer3">>],
       [peerID |-> "peer2", callerUserID |-> regularUser,
        expectedStatus |-> StatusOK, expectedPeers |-> << >>],
       [peerID |-> "peer2", callerUserID |-> adminUser,
        expectedStatus |-> StatusOK, expectedPeers |-> <<"peer1", "peer3">>],
       [peerID |-> "peer3", callerUserID |-> adminUser,
        expectedStatus |-> StatusOK, expectedPeers |-> <<"peer1", "peer2">>],
       [peerID |-> "peer3", callerUserID |-> serviceUser,
        expectedStatus |-> StatusOK, expectedPeers |-> <<"peer1", "peer2">>] >>

\* assert.ElementsMatch: the same elements the same number of times, in
\* any order
ElementsMatch(listA, listB) ==
    /\ Len(listA) = Len(listB)
    /\ \A x \in Range(listA) \cup Range(listB) :
         Cardinality({ i \in 1..Len(listA) : listA[i] = x })
             = Cardinality({ i \in 1..Len(listB) : listB[i] = x })

\* the evaluator: peer a reaches peer b when an enabled rule of an enabled
\* policy has a source group holding a and a destination group holding b,
\* or the reverse for a bidirectional rule
CanReach(policies, gs, a, b) ==
    LET in(ids, x) == \E g \in ids \cap DOMAIN gs : x \in gs[g]
    IN  \E i \in 1..Len(policies) :
            /\ policies[i].enabled
            /\ \E j \in 1..Len(policies[i].rules) :
                 LET rule == policies[i].rules[j]
                 IN  /\ rule.enabled
                     /\ \/ in(rule.sources, a) /\ in(rule.destinations, b)
                        \/ /\ rule.bidirectional
                           /\ in(rule.sources, b) /\ in(rule.destinations, a)

\* the peers of the answer: none for a regular user asking about a peer of
\* somebody else, otherwise the other peers the evaluator lets peerID reach
AccessiblePeers(peers, owner, callerUserID, peerID) ==
    LET user == TestUsers[callerUserID]
    IN  IF /\ user.role = UserRoleUser /\ ~user.isServiceUser
           /\ owner[peerID] # callerUserID
        THEN {}
        ELSE { b \in peers \ {peerID} :
                 CanReach(TestPolicies, TestGroups(peers), peerID, b) }

\* the lists that hold each element of a set once
Listings(S) ==
    { l \in [1..Cardinality(S) -> S] : \A x \in S : \E i \in DOMAIN l : l[i] = x }

\* the handler: status 200 and the accessible peers, in an order of its own
GetAccessiblePeers ==
    /\ access.peerID # "" /\ access.status = 0
    /\ \E body \in Listings(AccessiblePeers(access.peers, access.owner,
                                            access.callerUserID, access.peerID)) :
         access' = [access EXCEPT !.status = StatusOK, !.body = body]
    /\ UNCHANGED <<scenario, ui, serial, groups, lock, pc, req, loc, commits>>

\* a request of any of the three users for any peer of an account built by
\* initTestMetaData from some of the three peers, under any ownership
AccessInit ==
    /\ scenario = "none"
    /\ serial = [a \in Accounts |-> 0]
    /\ groups = InitGroups
    /\ lock = [a \in Accounts |-> NoProc]
    /\ pc = [p \in Procs |-> "idle"]
    /\ req = [p \in Procs |-> NoReq]
    /\ loc = [p \in Procs |-> NoLoc]
    /\ commits = [a \in Accounts |-> << >>]
    /\ ui = NoUI
    /\ access \in
         { [peers |-> P, owner |-> o, callerUserID |-> c, peerID |-> x,
            status |-> 0, body |-> << >>] :
             P \in (SUBSET TestPeerIDs) \ {{}},
             o \in [TestPeerIDs -> DOMAIN TestUsers],
             c \in DOMAIN TestUsers, x \in TestPeerIDs }
    /\ access.peerID \in access.peers

AccessNext == GetAccessiblePeers

AccessSpec == AccessInit /\ [][AccessNext]_vars

\* ------------------------------------------------ exit nodes, client UI
\* The tray menu has one checkbox item per exit node; a click on an item
\* runs toggleExitNode for its node.  The daemon holds which networks are
\* selected; the Networks window selects and deselects them as well.
ExitNodes == {"n1", "n2", "n3"}

\* the builds that recreate the menu after a toggle, and one that does not
GOOS == {"linux", "darwin"}

NoNode == "none"

\* the locals of a toggle: the IDs to deselect, whether to select the node,
\* and, for the record, item.Checked(), the other selected nodes it found,
\* and whether the Networks window changed the selection meanwhile
NoToggle ==
    [ids |-> {}, select |-> FALSE, checked |-> FALSE, others |-> {},
     disturbed |-> FALSE]

\* the last toggle that returned nil with nothing else touching the selection
NoLast == [node |-> NoNode, checked |-> FALSE, others |-> {}]

\* any selection in the daemon, any state of the menu
ExitNodeInit ==
    /\ scenario = "none"
    /\ access = NoAccess
    /\ serial = [a \in Accounts |-> 0]
    /\ groups = InitGroups
    /\ lock = [a \in Accounts |-> NoProc]
    /\ pc = [p \in Procs |-> "idle"]
    /\ req = [p \in Procs |-> NoReq]
    /\ loc = [p \in Procs |-> NoLoc]
    /\ commits = [a \in Accounts |-> << >>]
    /\ ui \in { [goos |-> os, selected |-> sel, checked |-> chk,
                 exitNodeMu |-> NoNode,
                 th |-> [n \in ExitNodes |-> "idle"],
                 tl |-> [n \in ExitNodes |-> NoToggle],
                 update |-> "idle", exitNodes |-> {},
                 toggled |-> FALSE, last |-> NoLast] :
                os \in GOOS, sel \in SUBSET ExitNodes, chk \in SUBSET ExitNodes }

Others == <<scenario, access, serial, groups, lock, pc, req, loc, commits>>

\* the deferred s.exitNodeMu.Unlock() of a toggle that returns
Unlocked(u, n) ==
    [u EXCEPT !.exitNodeMu = NoNode, !.th[n] = "idle", !.tl[n] = NoToggle]

\* handleChecked: a click on the item of node n calls toggleExitNode, which
\* first asks for the daemon client and returns at once without it
handleChecked(n) ==
    /\ ui.th[n] = "idle"
    /\ ui' = [ui EXCEPT !.th[n] = "lock"]
    /\ UNCHANGED Others

\* toggleExitNode taking no mutex
LockExitNodeMu_NoMutex(n) ==
    /\ ui.th[n] = "lock"
    /\ ui' = [ui EXCEPT !.exitNodeMu = n, !.th[n] = "list", !.last = NoLast]
    /\ UNCHANGED Others

\* s.exitNodeMu.Lock()
LockExitNodeMu(n) ==
    /\ ui.th[n] = "lock"
    /\ ui.exitNodeMu = NoNode
    /\ ui' = [ui EXCEPT !.exitNodeMu = n, !.th[n] = "list", !.last = NoLast]
    /\ UNCHANGED Others

\* getExitNodes and the loop over its answer: the other selected nodes are
\* to be deselected; a checked item with no other node selected means
\* deselecting the node itself
getExitNodes(n, ok) ==
    /\ ui.th[n] = "list"
    /\ LET others == ui.selected \ {n}
           only   == (n \in ui.checked) /\ others = {}
       IN  ui' = IF ~ok THEN Unlocked(ui, n)
                 ELSE [ui EXCEPT
                         !.th[n] = "deselect",
                         !.tl[n] = [ids |-> IF only THEN {n} ELSE others,
                                    select |-> ~only /\ n \notin ui.selected,
                                    checked |-> (n \in ui.checked),
                                    others |-> others,
                                    disturbed |-> FALSE]]
    /\ UNCHANGED Others

\* conn.DeselectNetworks(ids), when there is something to deselect
DeselectNetworks(n, ok) ==
    /\ ui.th[n] = "deselect"
    /\ ui.tl[n].ids = {} => ok
    /\ ui' = IF ~ok THEN Unlocked(ui, n)
             ELSE [ui EXCEPT !.selected = @ \ ui.tl[n].ids, !.th[n] = "select"]
    /\ UNCHANGED Others

\* the other items are unchecked, then conn.SelectNetworks([n], Append)
\* when the node was not selected
SelectNetworks(n, ok) ==
    /\ ui.th[n] = "select"
    /\ ~ui.tl[n].select => ok
    /\ LET unchecked == [ui EXCEPT !.checked = @ \cap {n}]
       IN  ui' = IF ~ok THEN Unlocked(unchecked, n)
                 ELSE [unchecked EXCEPT
                         !.selected = IF ui.tl[n].select THEN @ \cup {n} ELSE @,
                         !.th[n] = "check"]
    /\ UNCHANGED Others

\* item.Check(), recreateExitNodeMenu on linux with the node as the only
\* selected one, and the return of nil
CheckItem(n) ==
    /\ ui.th[n] = "check"
    /\ LET menu == IF ui.goos = "linux" THEN {n} ELSE ui.checked \cup {n}
           done == [Unlocked(ui, n) EXCEPT !.checked = menu]
       IN  ui' = IF ui.tl[n].disturbed THEN done
                 ELSE [done EXCEPT
                         !.toggled = TRUE,
                         !.last = [node |-> n, checked |-> ui.tl[n].checked,
                                   others |-> ui.tl[n].others]]
    /\ UNCHANGED Others

\* updateExitNodes asks the daemon for the exit nodes before it locks, and
\* gives up without them
updateExitNodes ==
    /\ ui.update = "idle"
    /\ ui' = [ui EXCEPT !.update = "lock", !.exitNodes = ui.selected]
    /\ UNCHANGED Others

\* and under the mutex recreates the menu from them
recreateExitNodeMenu ==
    /\ ui.update = "lock"
    /\ ui.exitNodeMu = NoNode
    /\ ui' = [ui EXCEPT !.update = "idle", !.exitNodes = {},
                        !.checked = ui.exitNodes]
    /\ UNCHANGED Others

\* the Networks window selects or deselects a network, under no mutex
selectNetwork(id, checked) ==
    /\ ui.goos # ""
    /\ ui' = [ui EXCEPT
                !.selected = IF checked THEN @ \cup {id} ELSE @ \ {id},
                !.toggled = FALSE,
                !.last = NoLast,
                !.tl = [n \in ExitNodes |->
                          IF ui.th[n] \in {"deselect", "select", "check"}
                          THEN [@[n] EXCEPT !.disturbed = TRUE] ELSE @[n]]]
    /\ UNCHANGED Others

ExitNodeNext ==
    \/ \E n \in ExitNodes : handleChecked(n)
    \/ \E n \in ExitNodes : LockExitNodeMu(n)
    \/ \E n \in ExitNodes, ok \in BOOLEAN : getExitNodes(n, ok)
    \/ \E n \in ExitNodes, ok \in BOOLEAN : DeselectNetworks(n, ok)
    \/ \E n \in ExitNodes, ok \in BOOLEAN : SelectNetworks(n, ok)
    \/ \E n \in ExitNodes : CheckItem(n)
    \/ updateExitNodes
    \/ recreateExitNodeMenu
    \/ \E id \in ExitNodes, checked \in BOOLEAN : selectNetwork(id, checked)

ExitNodeSpec == ExitNodeInit /\ [][ExitNodeNext]_vars

\* =================================================================
\* Properties
\* =================================================================
\* caller p is between acquiring account a's write lock and releasing it
InCall(p, a) == pc[p] \notin {"idle", "read", "done"} /\ req[p].account = a

\* C1: at most one caller is between acquiring an account's write lock and
\* releasing it, so at most one is inside its store transaction for that
\* account; that caller holds the lock.
C1_MutualExclusion ==
    \A a \in Accounts :
        \A p \in Procs, q \in Procs :
            InCall(p, a) /\ InCall(q, a) => p = q /\ lock[a] = p

\* a caller is in its transaction after the other caller committed a write
C1_Witness ==
    \E p \in Procs, q \in Procs :
        /\ p # q
        /\ pc[p] = "tx" /\ lock["a1"] = p /\ pc[q] = "idle"
        /\ req[p].op = "GroupAddPeer"
        /\ Len(commits["a1"]) = 1

\* C2: the serials the committed transactions of an account leave are
\* strictly increasing, and the account's serial is the last of them: it
\* never decreases and no two commits produce the same value.
C2_SerialStrictlyIncreasing ==
    \A a \in Accounts :
        /\ \A i \in 1..Len(commits[a]) :
             commits[a][i] > (IF i = 1 THEN 0 ELSE commits[a][i - 1])
        /\ serial[a] = (IF commits[a] = << >> THEN 0
                        ELSE commits[a][Len(commits[a])])

\* two transactions have committed; the second is about to return
C2_Witness ==
    /\ Len(commits["a1"]) = 2
    /\ commits["a1"][1] < commits["a1"][2]
    /\ \E p \in Procs : pc[p] = "unlock" /\ loc[p].wrote

\* ------------------------------------------- what the account references
\* the references to group g the account holds, read off the account itself
PolicyReferenced(sc, g) ==
    \E i \in 1..Len(Policies(sc)) : \E j \in 1..Len(Policies(sc)[i].rules) :
        \/ g \in Policies(sc)[i].rules[j].sources
        \/ g \in Policies(sc)[i].rules[j].destinations

RouteReferenced(sc, g) ==
    \E i \in 1..Len(Routes(sc)) :
        g \in Routes(sc)[i].groups \/ g \in Routes(sc)[i].peerGroups

DnsReferenced(sc, g) ==
    \E i \in 1..Len(NameServerGroups(sc)) : g \in NameServerGroups(sc)[i].groups

\* g is referenced by something the impact predicate looks at
ImpactReferenced(sc, g) ==
    \/ PolicyReferenced(sc, g)
    \/ RouteReferenced(sc, g)
    \/ DnsReferenced(sc, g)
    \/ g \in DNSSettings(sc).disabledManagementGroups

\* g is referenced by something that forbids its deletion
DeleteBlocked(sc, g) ==
    \/ ImpactReferenced(sc, g)
    \/ \E i \in 1..Len(SetupKeys(sc)) : g \in SetupKeys(sc)[i].autoGroups
    \/ \E i \in 1..Len(UserList(sc)) : g \in UserList(sc)[i].autoGroups
    \/ g \in Settings(sc).integratedValidatorGroups

\* the IDs of the stored groups call r touches; a group SaveGroups creates
\* gets an ID nothing references
Touched(r) ==
    IF r.op = "SaveGroups"
    THEN { r.groups[i].id : i \in 1..Len(r.groups) } \ {""}
    ELSE IF r.op = "DeleteGroups" THEN Range(r.ids)
    ELSE {r.group}

\* caller p's call has done everything but release the lock and return
AtReturn(p) == pc[p] = "unlock"

\* caller p's call ends in success after its transaction committed
Succeeded(p) ==
    AtReturn(p) /\ loc[p].opened /\ loc[p].txErr = NoErr /\ loc[p].ret = << >>

\* C3: a successful GroupAddPeer(account, G, P) on a group G that a policy
\* rule references, with P not yet a member, adds P to G, increases the
\* account's serial by exactly 1 and invokes updateAccountPeers exactly once.
C3_AddPeerToPolicyGroup ==
    \A p \in Procs :
        ( /\ Succeeded(p)
          /\ req[p].op = "GroupAddPeer"
          /\ req[p].group \in DOMAIN loc[p].pre.groups
          /\ PolicyReferenced(scenario, req[p].group)
          /\ ~Contains(loc[p].pre.groups[req[p].group].peers, req[p].peer) )
        => /\ req[p].group \in DOMAIN groups[req[p].account]
           /\ Contains(groups[req[p].account][req[p].group].peers, req[p].peer)
           /\ serial[req[p].account] = loc[p].pre.serial + 1
           /\ loc[p].updates = 1

\* C4: a successful SaveGroups, GroupAddPeer or GroupDeletePeer that touches
\* only groups no policy rule, route, name-server group or DNS-management
\* exception references leaves the account's serial as the call found it.
C4_NoImpactKeepsSerial ==
    \A p \in Procs :
        ( /\ Succeeded(p)
          /\ req[p].op \in {"SaveGroups", "GroupAddPeer", "GroupDeletePeer"}
          /\ \A g \in Touched(req[p]) : ~ImpactReferenced(scenario, g) )
        => serial[req[p].account] = loc[p].pre.serial

\* C5: a SaveGroups, GroupAddPeer or GroupDeletePeer call that touches only
\* groups no policy rule, route, name-server group or DNS-management
\* exception references never reaches updateAccountPeers.
C5_NoImpactNoPropagation ==
    \A p \in Procs :
        ( /\ pc[p] # "idle"
          /\ req[p].op \in {"SaveGroups", "GroupAddPeer", "GroupDeletePeer"}
          /\ \A g \in Touched(req[p]) : ~ImpactReferenced(scenario, g) )
        => pc[p] # "update" /\ loc[p].updates = 0

\* a committed GroupAddPeer on a group only a setup key references returns
\* without a propagation
C5_Witness ==
    \E p \in Procs :
        /\ Succeeded(p)
        /\ req[p].op = "GroupAddPeer" /\ req[p].group = "g1"
        /\ scenario = "setupKey"
        /\ loc[p].wrote
        /\ loc[p].updates = 0

\* the group and the peer of caller p's GroupAddPeer or GroupDeletePeer, as
\* the call found them
PreGroup(p) == loc[p].pre.groups[req[p].group]

IsMember(p) == Contains(PreGroup(p).peers, req[p].peer)

\* caller p's call has left the account as it found it
Untouched(p) ==
    /\ groups[req[p].account] = loc[p].pre.groups
    /\ serial[req[p].account] = loc[p].pre.serial
    /\ ~loc[p].wrote

\* C6: GroupAddPeer of a member and GroupDeletePeer of a non-member write
\* nothing (groups and serial stay, nothing is committed), store no event,
\* trigger no propagation and, unless a store call fails, return success; a
\* successful GroupAddPeer of a non-member appends the peer once and
\* increments the serial by exactly 1, so of two consecutive GroupAddPeer
\* calls with the same group and peer exactly one changes the membership and
\* the serial (none if the peer was a member before).
C6_MembershipEditsIdempotent ==
    \A p \in Procs :
        ( /\ pc[p] \notin {"idle", "tx"}
          /\ req[p].op \in {"GroupAddPeer", "GroupDeletePeer"}
          /\ req[p].group \in DOMAIN loc[p].pre.groups )
        => IF IsMember(p) = (req[p].op = "GroupAddPeer")
           THEN /\ Untouched(p)
                /\ pc[p] = "unlock"
                /\ loc[p].updates = 0 /\ loc[p].stored = << >>
                /\ ~loc[p].faulty => loc[p].ret = << >>
           ELSE loc[p].txErr = NoErr =>
                /\ serial[req[p].account] = loc[p].pre.serial + 1
                /\ IF req[p].op = "GroupAddPeer"
                   THEN groups[req[p].account][req[p].group].peers =
                            Append(PreGroup(p).peers, req[p].peer)
                   ELSE /\ Len(groups[req[p].account][req[p].group].peers) =
                               Len(PreGroup(p).peers) - 1
                        /\ SelectSeq(groups[req[p].account][req[p].group].peers,
                                     LAMBDA x : x # req[p].peer) =
                              SelectSeq(PreGroup(p).peers, LAMBDA x : x # req[p].peer)
                /\ \A g \in DOMAIN loc[p].pre.groups \ {req[p].group} :
                     groups[req[p].account][g] = loc[p].pre.groups[g]

\* a GroupAddPeer("g1", "p2") that finds "p2" a member of "g1", where one
\* earlier call put it, returns success and commits nothing
C6_Witness ==
    \E p \in Procs :
        /\ Succeeded(p)
        /\ req[p].op = "GroupAddPeer" /\ req[p].group = "g1" /\ req[p].peer = "p2"
        /\ scenario \notin {"none", "policySrc"}
        /\ loc[p].pre.groups["g1"].peers = <<"p1", "p2">>
        /\ commits["a1"] = <<1>>
        /\ Untouched(p)

\* caller p's DeleteGroups passed the requester's check and its transaction
\* committed
DeleteCommitted(p) ==
    /\ req[p].op = "DeleteGroups"
    /\ pc[p] \in {"events", "unlock"}
    /\ loc[p].opened /\ loc[p].txErr = NoErr

\* C7: DeleteGroups([G]) on a stored group G that a policy rule, route,
\* name-server group, setup key, user, the DNS-management exceptions or the
\* integrated validator references returns a GroupLinkError and leaves G in
\* the store.
C7_LinkedGroupNotDeleted ==
    \A p \in Procs :
        ( /\ DeleteCommitted(p) /\ AtReturn(p)
          /\ Len(req[p].ids) = 1
          /\ req[p].ids[1] \in DOMAIN loc[p].pre.groups
          /\ DeleteBlocked(scenario, req[p].ids[1]) )
        => /\ req[p].ids[1] \in DOMAIN groups[req[p].account]
           /\ Len(loc[p].ret) = 1
           /\ loc[p].ret[1].kind = "GroupLinkError"

\* why the ID at position i of caller p's DeleteGroups cannot be deleted, read
\* off the account as the call found it
FailsValidation(p, i) ==
    LET id == req[p].ids[i]
    IN  \/ id \notin DOMAIN loc[p].pre.groups
        \/ IsGroupAll(loc[p].pre.groups[id])
        \/ DeleteBlocked(scenario, id)
        \/ /\ loc[p].pre.groups[id].issued = GroupIssuedIntegration
           /\ \A k \in 1..Len(UserList(scenario)) :
                UserList(scenario)[k].id = req[p].user =>
                    \/ UserList(scenario)[k].role # UserRoleAdmin
                    \/ ~UserList(scenario)[k].isServiceUser

\* C8: a committed DeleteGroups has one outcome per ID: the ID is deleted or
\* it contributes one error.  The deleted IDs are gone, every other group is
\* as it was, and the call returns the errors (nil exactly when there is
\* none).  While no store call fails, the IDs that contribute an error are
\* those not found, linked, the ALL group, or an integration group the
\* requester may not delete, and every other ID is deleted.
C8_PartialDeletion ==
    \A p \in Procs :
        DeleteCommitted(p) =>
            LET ids     == req[p].ids
                now     == groups[req[p].account]
                pre     == loc[p].pre.groups
                deleted == { loc[p].deletedGroups[i].id :
                                i \in 1..Len(loc[p].deletedGroups) }
            IN  /\ Len(loc[p].allErrors) + Len(loc[p].deletedGroups) = Len(ids)
                /\ deleted \subseteq Range(ids) \cap DOMAIN pre
                /\ DOMAIN now = DOMAIN pre \ deleted
                /\ \A g \in DOMAIN now : now[g] = pre[g]
                /\ AtReturn(p) => loc[p].ret = loc[p].allErrors
                /\ ~loc[p].faulty =>
                     /\ deleted = { ids[i] : i \in { k \in 1..Len(ids) :
                                                       ~FailsValidation(p, k) } }
                     /\ Len(loc[p].allErrors) =
                          Cardinality({ k \in 1..Len(ids) : FailsValidation(p, k) })

\* DeleteGroups(["g2", "g1"]) with "g1" the source of a policy rule is about
\* to return: "g2" is gone, "g1" is there, the error names the policy
C8_Witness ==
    \E p \in Procs :
        /\ DeleteCommitted(p) /\ AtReturn(p)
        /\ req[p].ids = <<"g2", "g1">>
        /\ scenario = "policySrc"
        /\ "g2" \notin DOMAIN groups["a1"]
        /\ "g1" \in DOMAIN groups["a1"]
        /\ loc[p].ret = <<GroupLinkError("policy")>>
        /\ Len(loc[p].stored) = 1

\* the requester of caller p's call is a regular user of the call's account
RegularRequester(p) ==
    \E k \in 1..Len(UserList(scenario)) :
        /\ UserList(scenario)[k].id = req[p].user
        /\ UserList(scenario)[k].accountID = req[p].account
        /\ UserList(scenario)[k].role # UserRoleAdmin
        /\ ~UserList(scenario)[k].isServiceUser

\* C9: SaveGroups and DeleteGroups called by a regular user of the account
\* return the admin-permission error without opening a transaction: groups
\* and serial stay, no event is stored, no propagation is triggered.
C9_RegularUserDenied ==
    \A p \in Procs :
        ( /\ pc[p] # "idle"
          /\ req[p].op \in {"SaveGroups", "DeleteGroups"}
          /\ RegularRequester(p) )
        => /\ pc[p] \in {"check", "unlock"}
           /\ ~loc[p].opened
           /\ Untouched(p)
           /\ loc[p].stored = << >> /\ loc[p].updates = 0
           /\ AtReturn(p) => loc[p].ret = <<Err("AdminPermission")>>

\* a regular user's SaveGroups is about to return, after an earlier call of
\* someone else committed
C9_Witness ==
    \E p \in Procs :
        /\ AtReturn(p)
        /\ req[p].op = "SaveGroups" /\ req[p].user = "reg"
        /\ loc[p].ret = <<Err("AdminPermission")>>
        /\ commits["a1"] # << >>

\* C10: a call whose transaction returned an error returns that error, and
\* stores no event and triggers no propagation; events are stored and the
\* propagation is triggered only after a transaction that committed.
C10_FailedTxNoSideEffects ==
    \A p \in Procs :
        /\ ( loc[p].opened /\ loc[p].txErr # NoErr )
           => /\ pc[p] = "unlock"
              /\ loc[p].ret = <<loc[p].txErr>>
              /\ loc[p].stored = << >>
              /\ loc[p].updates = 0
        /\ ( pc[p] \in {"events", "update"}
             \/ loc[p].stored # << >> \/ loc[p].updates # 0 )
           => loc[p].opened /\ loc[p].txErr = NoErr

\* a SaveGroups whose transaction failed after it queued events is about to
\* return the error
C10_Witness ==
    \E p \in Procs :
        /\ AtReturn(p)
        /\ req[p].op = "SaveGroups"
        /\ loc[p].opened /\ loc[p].txErr = Err("StoreFailure")
        /\ loc[p].eventsToStore # << >>
        /\ loc[p].stored = << >>

\* C11: a caller that stores its audit events or invokes updateAccountPeers
\* has released the account's write lock before.
C11_SideEffectsOutsideLock ==
    \A p \in Procs :
        pc[p] \in {"events", "update"} => lock[req[p].account] # p

\* caller p's call committed its transaction and has done all but return
CommittedAtReturn(p) ==
    AtReturn(p) /\ loc[p].opened /\ loc[p].txErr = NoErr /\ loc[p].wrote

\* C12: a SaveGroups, GroupAddPeer or GroupDeletePeer call invokes
\* updateAccountPeers at most once, and a SaveGroups call that committed a
\* batch with at least one group a policy rule, route, name-server group or
\* DNS-management exception references invokes it exactly once.
C12_BatchedPropagation ==
    \A p \in Procs :
        req[p].op \in {"SaveGroups", "GroupAddPeer", "GroupDeletePeer"} =>
            /\ loc[p].updates <= 1
            /\ ( /\ CommittedAtReturn(p)
                 /\ req[p].op = "SaveGroups"
                 /\ \E g \in Touched(req[p]) : ImpactReferenced(scenario, g) )
               => loc[p].updates = 1

\* C16: every group the account's policy rules name as source or
\* destination, and every group its routes name, is a group of the account.
C16_ReferencesResolve ==
    \A g \in DOMAIN InitGroups["a1"] :
        PolicyReferenced(scenario, g) \/ RouteReferenced(scenario, g)
            => g \in DOMAIN groups["a1"]

\* C17: a committed SaveGroups, GroupAddPeer or GroupDeletePeer that touches
\* a group a policy rule names, a route references or the DNS-management
\* exceptions list has areGroupChangesAffectPeers answer true and invokes
\* updateAccountPeers, whether or not a read of the linkage scan failed.
C17_ImpactNoFalseNegative ==
    \A p \in Procs :
        ( /\ CommittedAtReturn(p)
          /\ req[p].op \in {"SaveGroups", "GroupAddPeer", "GroupDeletePeer"}
          /\ \E g \in Touched(req[p]) :
                \/ PolicyReferenced(scenario, g)
                \/ RouteReferenced(scenario, g)
                \/ g \in DNSSettings(scenario).disabledManagementGroups )
        => loc[p].updateAccountPeers /\ loc[p].updates >= 1

\* why validateNewGroup refuses group b in an account whose groups are pre:
\* the kind of its error, "nil" when it accepts b
ValidationKind(pre, b) ==
    IF b.id = "" /\ b.issued # GroupIssuedAPI THEN "InvalidArgument"
    ELSE IF b.id = "" /\ \E g \in DOMAIN pre : pre[g].name = b.name
    THEN "AlreadyExists"
    ELSE IF \E i \in 1..Len(b.peers) : b.peers[i] \notin AccountPeers
    THEN "InvalidArgument"
    ELSE "nil"

\* the positions of caller p's batch that hold a group validateNewGroup refuses
BadPositions(p) ==
    { i \in 1..Len(req[p].groups) :
        ValidationKind(loc[p].pre.groups, req[p].groups[i]) # "nil" }

\* the error of the first group of caller p's batch that is refused
FirstValidationError(p) ==
    LET i == CHOOSE k \in BadPositions(p) : \A m \in BadPositions(p) : k <= m
    IN  Err(ValidationKind(loc[p].pre.groups, req[p].groups[i]))

\* caller p's SaveGroups has run its transaction
SaveRan(p) == req[p].op = "SaveGroups" /\ loc[p].opened

\* C13: a SaveGroups call whose batch holds a group that fails validation
\* (no ID on a non-API group, the name of an existing group on a new API
\* group, a member the account does not hold) returns the error, that of the
\* first such group unless a store call failed, and persists no group of the
\* batch, leaves the serial, stores no event and triggers no propagation.
C13_SaveGroupsAllOrNothing ==
    \A p \in Procs :
        SaveRan(p) /\ BadPositions(p) # {} =>
            /\ pc[p] = "unlock"
            /\ Untouched(p)
            /\ loc[p].stored = << >> /\ loc[p].updates = 0
            /\ loc[p].txErr # NoErr
            /\ loc[p].ret = <<loc[p].txErr>>
            /\ ~loc[p].faulty => loc[p].txErr = FirstValidationError(p)

\* SaveGroups of a new group "dev" and a new integration group without ID
\* returns InvalidArgument; the events of "dev" were queued, not stored
C13_Witness ==
    \E p \in Procs :
        /\ SaveRan(p) /\ AtReturn(p)
        /\ Len(req[p].groups) = 2
        /\ req[p].groups[1].name = "dev" /\ req[p].groups[2].name = "idp"
        /\ loc[p].ret = <<Err("InvalidArgument")>>
        /\ loc[p].eventsToStore # << >>
        /\ Untouched(p)

\* the groups of caller p's batch that carry no ID, by position
NewPositions(p) == { i \in 1..Len(req[p].groups) : req[p].groups[i].id = "" }

\* C14: while no store call fails, SaveGroups fails with InvalidArgument on a
\* group with no ID and a non-API issuer, with AlreadyExists on an API group
\* with no ID whose name a group of the account carries, and with
\* InvalidArgument on a group with a member the account does not hold; when
\* no group of the batch fails, each group with no ID is stored under an ID
\* of its own that no group carried before, and each group with an ID under
\* that ID.
C14_ValidationErrorKinds ==
    \A p \in Procs :
        SaveRan(p) /\ ~loc[p].faulty =>
            IF BadPositions(p) # {}
            THEN loc[p].txErr = FirstValidationError(p)
            ELSE LET now   == groups[req[p].account]
                     pre   == loc[p].pre.groups
                     fresh == DOMAIN now \
                                (DOMAIN pre \cup { req[p].groups[i].id :
                                                     i \in 1..Len(req[p].groups) })
                 IN  /\ loc[p].txErr = NoErr
                     /\ Cardinality(fresh) = Cardinality(NewPositions(p))
                     /\ \A i \in NewPositions(p) : \E id \in fresh :
                          now[id] = [req[p].groups[i] EXCEPT !.id = id]
                     /\ \A id \in fresh : id # "" /\ \E i \in NewPositions(p) :
                          now[id] = [req[p].groups[i] EXCEPT !.id = id]
                     /\ \A i \in 1..Len(req[p].groups) \ NewPositions(p) :
                          /\ req[p].groups[i].id \in DOMAIN now
                          /\ \E k \in 1..Len(req[p].groups) :
                               now[req[p].groups[i].id] = req[p].groups[k]

\* a new API group named like "g1" is refused with AlreadyExists in an
\* account where an earlier call stored a new group under a generated ID
C14_Witness ==
    \E p \in Procs :
        /\ SaveRan(p) /\ AtReturn(p) /\ ~loc[p].faulty
        /\ Len(req[p].groups) = 1 /\ req[p].groups[1].id = ""
        /\ req[p].groups[1].name = "eng"
        /\ loc[p].ret = <<Err("AlreadyExists")>>
        /\ "x1" \in DOMAIN groups["a1"]

\* C15: the ALL group of every account exists in every reachable state.
C15_AllGroupExists ==
    \A a \in Accounts : "ALL" \in DOMAIN groups[a]

\* C18: no two API-issued groups of an account carry the same name.
C18_UniqueApiNames ==
    \A a \in Accounts : \A g \in DOMAIN groups[a], h \in DOMAIN groups[a] :
        ( /\ groups[a][g].issued = GroupIssuedAPI
          /\ groups[a][h].issued = GroupIssuedAPI
          /\ groups[a][g].name = groups[a][h].name )
        => g = h

\* C19: no stored group lists a peer twice.
C19_NoDuplicateMembers ==
    \A a \in Accounts : \A g \in DOMAIN groups[a] :
        \A i \in 1..Len(groups[a][g].peers), j \in 1..Len(groups[a][g].peers) :
            groups[a][g].peers[i] = groups[a][g].peers[j] => i = j

\* the requester of caller p's call is a service user with the admin role
AdminServiceRequester(p) ==
    \E k \in 1..Len(UserList(scenario)) :
        /\ UserList(scenario)[k].id = req[p].user
        /\ UserList(scenario)[k].role = UserRoleAdmin
        /\ UserList(scenario)[k].isServiceUser

\* C20: a committed DeleteGroups deletes an integration-issued group only for
\* a requester that is a service user with the admin role.  For any other
\* requester the group stays and, unless a store call failed, the error of
\* its ID is PermissionDenied, while the IDs of the call that pass their
\* validation are deleted.
C20_IntegrationGroupDeletion ==
    \A p \in Procs :
        DeleteCommitted(p) =>
            \A i \in 1..Len(req[p].ids) :
                ( /\ req[p].ids[i] \in DOMAIN loc[p].pre.groups
                  /\ loc[p].pre.groups[req[p].ids[i]].issued = GroupIssuedIntegration
                  /\ ~AdminServiceRequester(p) )
                => /\ req[p].ids[i] \in DOMAIN groups[req[p].account]
                   /\ ~loc[p].faulty =>
                        /\ loc[p].allErrors[
                               Cardinality({ k \in 1..i : FailsValidation(p, k) })
                             ].kind = "PermissionDenied"
                        /\ \A k \in 1..Len(req[p].ids) :
                             ~FailsValidation(p, k) =>
                                 req[p].ids[k] \notin DOMAIN groups[req[p].account]

\* DeleteGroups(["g3", "g2"]) by a service user without the admin role is
\* about to return PermissionDenied: "g3" is there, "g2" is gone
C20_Witness ==
    \E p \in Procs :
        /\ DeleteCommitted(p) /\ AtReturn(p)
        /\ req[p].user = "bot" /\ req[p].ids = <<"g3", "g2">>
        /\ loc[p].ret = <<Err("PermissionDenied")>>
        /\ "g3" \in DOMAIN groups["a1"]
        /\ "g2" \notin DOMAIN groups["a1"]


\* the ID at position i of caller p's DeleteGroups names a group the call
\* found stored under the name of the ALL group
NamesAllGroup(p, i) ==
    /\ req[p].ids[i] \in DOMAIN loc[p].pre.groups
    /\ IsGroupAll(loc[p].pre.groups[req[p].ids[i]])

\* C21 as stated: a DeleteGroups call on the ALL group returns a
\* GroupLinkError, the error of a group that a policy, route, name-server
\* group, setup key, user or setting references.
C21_AllDeletionGroupLinked ==
    \A p \in Procs :
        ( /\ DeleteCommitted(p) /\ AtReturn(p)
          /\ Len(req[p].ids) = 1 /\ NamesAllGroup(p, 1) )
        => /\ Len(loc[p].ret) = 1
           /\ loc[p].ret[1].kind = "GroupLinkError"

\* C21, amended: a committed DeleteGroups never deletes a group stored under
\* the name of the ALL group; unless a store call failed or the group is
\* integration-issued, the error of its ID is InvalidArgument, not a
\* GroupLinkError, also when a policy rule names the group.
C21_AllDeletionInvalidArgument ==
    \A p \in Procs :
        DeleteCommitted(p) =>
            \A i \in 1..Len(req[p].ids) :
                NamesAllGroup(p, i) =>
                    /\ req[p].ids[i] \in DOMAIN groups[req[p].account]
                    /\ groups[req[p].account][req[p].ids[i]] =
                          loc[p].pre.groups[req[p].ids[i]]
                    /\ ( /\ ~loc[p].faulty
                         /\ loc[p].pre.groups[req[p].ids[i]].issued
                               # GroupIssuedIntegration )
                       => loc[p].allErrors[
                              Cardinality({ k \in 1..i : FailsValidation(p, k) })
                            ] = Err("InvalidArgument")

\* DeleteGroups(["ALL"]) is about to return InvalidArgument in an account
\* whose policy rule names the ALL group as destination; the group is there
C21_Witness ==
    \E p \in Procs :
        /\ DeleteCommitted(p) /\ AtReturn(p)
        /\ req[p].ids = <<"ALL">>
        /\ scenario = "policySrc"
        /\ PolicyReferenced(scenario, "ALL")
        /\ loc[p].ret = <<Err("InvalidArgument")>>
        /\ "ALL" \in DOMAIN groups["a1"]


\* the requester of caller p's call is a user of another account than the
\* call's
ForeignRequester(p) ==
    \E k \in 1..Len(UserList(scenario)) :
        /\ UserList(scenario)[k].id = req[p].user
        /\ UserList(scenario)[k].accountID # req[p].account

\* caller p's call has its result and is about to return
Finished(p) == pc[p] \in {"unlock", "done"}

\* C22: SaveGroups, DeleteGroups, GetGroup and GetAllGroups called by a user
\* of another account return UserNotPartOfAccount, whatever the user's role;
\* the call opens no transaction, reads no group of the account, returns no
\* group and writes nothing.
C22_ForeignRequesterRefused ==
    \A p \in Procs :
        ( /\ pc[p] # "idle"
          /\ req[p].op \in {"SaveGroups", "DeleteGroups", "GetGroup", "GetAllGroups"}
          /\ ForeignRequester(p) )
        => /\ pc[p] \in {"check", "unlock", "done"}
           /\ ~loc[p].opened /\ ~loc[p].read /\ ~loc[p].wrote
           /\ loc[p].data = {}
           /\ loc[p].stored = << >> /\ loc[p].updates = 0
           /\ req[p].op \in {"SaveGroups", "DeleteGroups"} => Untouched(p)
           /\ Finished(p) => loc[p].ret = <<Err("UserNotPartOfAccount")>>

\* a regular user of the other account has asked for "g1" of an account in
\* which a call committed; the read is about to return UserNotPartOfAccount
\* while the other caller's DeleteGroups, by an admin of the other account,
\* is about to return the same
C22_Witness ==
    \E p \in Procs, q \in Procs :
        /\ pc[p] = "done"
        /\ req[p].op = "GetGroup" /\ req[p].user = "vis" /\ req[p].group = "g1"
        /\ loc[p].ret = <<Err("UserNotPartOfAccount")>>
        /\ loc[p].data = {}
        /\ commits["a1"] # << >>
        /\ pc[q] = "unlock"
        /\ req[q].op = "DeleteGroups" /\ req[q].user = "out"
        /\ loc[q].ret = <<Err("UserNotPartOfAccount")>>


\* the requester of caller p's call is an admin or a service user of the
\* call's account
AuthorisedRequester(p) ==
    \E k \in 1..Len(UserList(scenario)) :
        /\ UserList(scenario)[k].id = req[p].user
        /\ UserList(scenario)[k].accountID = req[p].account
        /\ \/ UserList(scenario)[k].role = UserRoleAdmin
           \/ UserList(scenario)[k].isServiceUser

\* C23: a call changes the groups or the serial of its account only for a
\* requester that is an admin or a service user of that account: every
\* mutating operation, GroupAddPeer and GroupDeletePeer included, checks the
\* requester before it writes.
C23_MutationsRequirePermission ==
    \A p \in Procs :
        ( \/ loc[p].wrote
          \/ /\ loc[p].opened
             /\ \/ groups[req[p].account] # loc[p].pre.groups
                \/ serial[req[p].account] # loc[p].pre.serial )
        => AuthorisedRequester(p)


\* C24: when a store call made inside the transaction of SaveGroups,
\* GroupAddPeer or GroupDeletePeer fails, the transaction is aborted, the
\* call returns the store's error, and the account is as the call found it:
\* the serial is not incremented and no group is written.
C24_StoreFailureAborts ==
    \A p \in Procs :
        ( /\ req[p].op \in {"SaveGroups", "GroupAddPeer", "GroupDeletePeer"}
          /\ loc[p].opened /\ loc[p].failed )
        => /\ loc[p].txErr = Err("StoreFailure")
           /\ loc[p].ret = <<loc[p].txErr>>
           /\ pc[p] = "unlock"
           /\ Untouched(p)


\* caller p's SaveGroups committed and has stored its audit events
SaveEventsStored(p) ==
    /\ req[p].op = "SaveGroups"
    /\ pc[p] \in {"update", "unlock"}
    /\ loc[p].opened /\ loc[p].txErr = NoErr

\* how often caller p's call stored the event of that kind, target and group
StoredCount(p, kind, target, groupID) ==
    Cardinality({ k \in 1..Len(loc[p].stored) :
                    loc[p].stored[k] = Event(kind, target, groupID) })

\* C25: a committed SaveGroups stores, for each group of its batch, one
\* GroupCreated event exactly when the group did not exist before the call,
\* one GroupAddedToPeer event per peer among the new members and not among
\* the old, and one GroupRemovedFromPeer event per peer among the old
\* members and not among the new; it stores no other event.  A group the
\* batch lists more than once counts once per entry.
C25_SaveGroupsEvents ==
    \A p \in Procs :
        SaveEventsStored(p) =>
            LET pre     == loc[p].pre.groups
                now     == groups[req[p].account]
                batch   == req[p].groups
                created == DOMAIN now \ DOMAIN pre
                entries(g) == { i \in 1..Len(batch) : batch[i].id = g }
            IN  /\ \A k \in 1..Len(loc[p].stored) :
                     /\ loc[p].stored[k].group \in DOMAIN now
                     /\ loc[p].stored[k].kind \in
                          {"GroupCreated", "GroupAddedToPeer", "GroupRemovedFromPeer"}
                     /\ loc[p].stored[k].target \in
                          AccountPeers \cup {loc[p].stored[k].group}
                /\ \A g \in DOMAIN pre :
                     /\ StoredCount(p, "GroupCreated", g, g) = 0
                     /\ \A q \in AccountPeers :
                          /\ StoredCount(p, "GroupAddedToPeer", q, g) =
                               Cardinality({ i \in entries(g) :
                                   q \in Range(batch[i].peers) \ Range(pre[g].peers) })
                          /\ StoredCount(p, "GroupRemovedFromPeer", q, g) =
                               Cardinality({ i \in entries(g) :
                                   q \in Range(pre[g].peers) \ Range(batch[i].peers) })
                /\ \A g \in created :
                     /\ StoredCount(p, "GroupCreated", g, g) =
                          (IF entries(g) = {} THEN 1 ELSE Cardinality(entries(g)))
                     /\ \A q \in AccountPeers :
                          /\ StoredCount(p, "GroupAddedToPeer", q, g) =
                               (IF entries(g) = {}
                                THEN IF q \in Range(now[g].peers) THEN 1 ELSE 0
                                ELSE Cardinality({ i \in entries(g) :
                                                     q \in Range(batch[i].peers) }))
                          /\ StoredCount(p, "GroupRemovedFromPeer", q, g) = 0


\* the calls that take the account lock
Mutating == {"SaveGroups", "DeleteGroups", "GroupAddPeer", "GroupDeletePeer"}

\* call r is one the bounds of the model let start
Admissible(r) ==
    /\ serial[r.account] < MaxSerial
    /\ Cardinality({ i \in 1..Len(r.groups) : r.groups[i].id = "" })
          <= Len(SelectSeq(XIDs, LAMBDA x : x \notin DOMAIN groups[r.account]))

\* caller p can start call r now
CanStart(p, r) ==
    ENABLED ( \/ SaveGroup(p, r) \/ DeleteGroup(p, r)
              \/ GroupAddPeer(p, r) \/ GroupDeletePeer(p, r) )

\* caller p can take the next step of its call now
CanStep(p) ==
    ENABLED ( \/ CheckRequester(p) \/ ExecuteInTransaction(p) \/ StoreEvent(p)
              \/ updateAccountPeers(p) \/ Return(p) )

\* an idle caller can start a call on an account whenever no caller holds
\* that account's lock, whatever the callers on other accounts do, and a
\* caller in a call can always take its next step
NeverBlockedByOtherAccount ==
    \A p \in Procs :
        /\ pc[p] = "idle" =>
             \A r \in ConcurrentRequests :
                 ( /\ r.op \in Mutating
                   /\ Admissible(r)
                   /\ lock[r.account] = NoProc )
                 => CanStart(p, r)
        /\ pc[p] \in {"check", "tx", "events", "update", "unlock"} => CanStep(p)

\* a step of a call on one account leaves the groups, the serial, the commit
\* history and the lock of every other account as they are
OtherAccountsUnchanged ==
    \A p \in Procs :
        pc'[p] # pc[p] =>
            \A b \in Accounts :
                b # (IF pc[p] = "idle" THEN req'[p].account ELSE req[p].account)
                => /\ groups'[b] = groups[b]
                   /\ serial'[b] = serial[b]
                   /\ commits'[b] = commits[b]
                   /\ lock'[b] = lock[b]

\* C26: a group operation on one account never waits for a group operation on
\* another account (the write lock is keyed by the account ID), and it leaves
\* the other account's groups and serial unchanged.
C26_AccountIndependence ==
    /\ []NeverBlockedByOtherAccount
    /\ [][OtherAccountsUnchanged]_vars

\* two callers are inside their transactions at once, one holding the lock
\* of "a1", the other the lock of "a2", after a commit on "a2"
C26_Witness ==
    \E p \in Procs, q \in Procs :
        /\ pc[p] = "tx" /\ req[p].account = "a1" /\ lock["a1"] = p
        /\ pc[q] = "tx" /\ req[q].account = "a2" /\ lock["a2"] = q
        /\ commits["a2"] # << >>


Reads == {"GetGroup", "GetAllGroups"}

\* the store holds no user with the ID of caller p's requester
UnknownRequester(p) ==
    \A k \in 1..Len(UserList(scenario)) : UserList(scenario)[k].id # req[p].user

\* what the read of caller p answers for a requester the check lets pass,
\* read off the account at the moment of the store read
ReadAnswer(p) ==
    IF req[p].op = "GetAllGroups"
    THEN [ret |-> << >>,
          data |-> { groups[req[p].account][g] : g \in DOMAIN groups[req[p].account] }]
    ELSE IF req[p].group \in DOMAIN groups[req[p].account]
    THEN [ret |-> << >>, data |-> {groups[req[p].account][req[p].group]}]
    ELSE [ret |-> <<Err("NotFound")>>, data |-> {}]

\* a step of a read changes neither groups, serial, commit history nor lock,
\* and its store read answers with the groups as they are at that moment
ReadSteps ==
    \A p \in Procs :
        ( pc'[p] # pc[p] /\ (req[p].op \in Reads \/ req'[p].op \in Reads) )
        => /\ UNCHANGED <<groups, serial, commits, lock>>
           /\ pc[p] = "read" =>
                /\ loc'[p].ret = ReadAnswer(p).ret
                /\ loc'[p].data = ReadAnswer(p).data

\* C27 as stated: GetGroup and GetAllGroups return the admin-permission
\* (PermissionDenied) error to a regular user of the account, and NotFound
\* when the requester does not exist or belongs to another account; they
\* return no group with an error.
C27_ReadErrorsAsStated ==
    \A p \in Procs :
        req[p].op \in Reads /\ pc[p] = "done" =>
            /\ RegularRequester(p) => loc[p].ret = <<Err("AdminPermission")>>
            /\ UnknownRequester(p) \/ ForeignRequester(p)
                 => loc[p].ret = <<Err("NotFound")>>
            /\ loc[p].ret # << >> => loc[p].data = {}

\* the requester's check of a read refuses a regular user of the account
\* with the admin-permission error, an unknown user with NotFound and a user
\* of another account with UserNotPartOfAccount, before any group is read;
\* a read that fails returns no group
ReadErrors ==
    \A p \in Procs :
        req[p].op \in Reads /\ pc[p] # "idle" =>
            /\ RegularRequester(p) =>
                 pc[p] = "done" /\ ~loc[p].read
                 /\ loc[p].ret = <<Err("AdminPermission")>>
            /\ UnknownRequester(p) =>
                 pc[p] = "done" /\ ~loc[p].read
                 /\ loc[p].ret = <<Err("NotFound")>>
            /\ ForeignRequester(p) =>
                 pc[p] = "done" /\ ~loc[p].read
                 /\ loc[p].ret = <<Err("UserNotPartOfAccount")>>
            /\ AuthorisedRequester(p) =>
                 pc[p] = "read" \/ (pc[p] = "done" /\ loc[p].read)
            /\ loc[p].ret # << >> => loc[p].data = {}
            /\ pc[p] = "done" /\ loc[p].ret = << >> => loc[p].data # {}

\* C27, amended: GetGroup and GetAllGroups return the admin-permission
\* (PermissionDenied) error unless the requester is an admin or a service
\* user, NotFound when the requester or the group does not exist, and
\* UserNotPartOfAccount, not NotFound, when the requester belongs to another
\* account; a failed read returns no group, a successful one the groups as
\* stored, and no read changes the account.
C27_ReadErrors ==
    /\ []ReadErrors
    /\ [][ReadSteps]_vars

\* a regular user of the other account gets UserNotPartOfAccount from
\* GetAllGroups while the account's admin gets "g1" with the member a
\* committed GroupAddPeer gave it
C27_Witness ==
    \E p \in Procs, q \in Procs :
        /\ pc[p] = "done"
        /\ req[p].op = "GetAllGroups" /\ req[p].user = "vis"
        /\ loc[p].ret = <<Err("UserNotPartOfAccount")>>
        /\ pc[q] = "done"
        /\ req[q].op = "GetGroup" /\ req[q].user = "adm" /\ req[q].group = "g1"
        /\ loc[q].ret = << >>
        /\ loc[q].data = {Group("g1", "eng", GroupIssuedAPI, <<"p1", "p2">>)}


\* ----------------------------------------------------------- cancellation
\* caller p's context was cancelled before its call acquired the lock
CancelledBeforeLock(p) == pc[p] # "idle" /\ loc[p].cancelledAt = "entry"

\* caller p's context was cancelled after its transaction committed
CancelledAfterCommit(p) ==
    /\ loc[p].opened /\ loc[p].txErr = NoErr
    /\ loc[p].cancelledAt \in {"events", "update", "unlock"}

RegularNotOwner ==
    /\ TestUsers[access.callerUserID].role = UserRoleUser
    /\ ~TestUsers[access.callerUserID].isServiceUser
    /\ access.owner[access.peerID] # access.callerUserID

ImpactMethods ==
    { "GetAccountDNSSettings", "GetAccountNameServerGroups",
      "GetAccountPolicies", "GetAccountRoutes" }

\* caller p is in a SaveGroups whose transaction committed
CommittedSave(p) ==
    /\ req[p].op = "SaveGroups"
    /\ loc[p].opened /\ loc[p].txErr = NoErr

\* the transaction of caller p ended with the serial increment, the group
\* write and the commit, in this order, each once, after every call of the
\* impact predicate, itself after the calls of the loop over the batch
TxOrder(p) ==
    LET calls == loc[p].calls
        n     == Len(calls)
    IN  /\ n >= 3
        /\ calls[n - 2] = "IncrementNetworkSerial"
        /\ calls[n - 1] = "SaveGroups"
        /\ calls[n] = "Commit"
        /\ \A i \in 1..(n - 3) :
             /\ calls[i] \notin {"IncrementNetworkSerial", "SaveGroups", "Commit"}
             /\ calls[i] \in ImpactMethods
                => \A j \in i..(n - 3) : calls[j] \in ImpactMethods
        /\ req[p].groups # << >>
           => n >= 4 /\ calls[n - 3] \in ImpactMethods

\* where a SaveGroups stands: nothing stored and nothing propagated before
\* its commit or after a failed transaction; after the commit, the events
\* are stored before the sink is invoked
PostCommitOrder(p) ==
    /\ ~CommittedSave(p) => loc[p].stored = << >> /\ loc[p].updates = 0
    /\ CommittedSave(p)
       => /\ TxOrder(p)
          /\ pc[p] \in {"events", "update", "unlock"}
          /\ pc[p] = "events" => loc[p].stored = << >> /\ loc[p].updates = 0
          /\ pc[p] = "update"
             => loc[p].stored = loc[p].eventsToStore /\ loc[p].updates = 0
          /\ pc[p] = "unlock"
             => /\ loc[p].stored = loc[p].eventsToStore
                /\ loc[p].updates = IF loc[p].updateAccountPeers THEN 1 ELSE 0

SaveGroupsOrder ==
    \A p \in Procs : req[p].op = "SaveGroups" => PostCommitOrder(p)

\* a step of a SaveGroups that stores events follows the commit and
\* precedes the sink; a step that invokes the sink follows the last event;
\* the step that commits stores no event and invokes no sink
SaveGroupsSteps ==
    \A p \in Procs :
        ( req[p].op = "SaveGroups" /\ pc'[p] # "idle" )
        => /\ loc'[p].stored # loc[p].stored
              => /\ CommittedSave(p) /\ commits' = commits
                 /\ loc[p].updates = 0 /\ loc'[p].updates = 0
                 /\ loc'[p].stored = loc[p].eventsToStore
           /\ loc'[p].updates # loc[p].updates
              => /\ CommittedSave(p) /\ commits' = commits
                 /\ loc[p].stored = loc[p].eventsToStore
                 /\ loc'[p].stored = loc[p].stored
           /\ pc[p] = "tx"
              => loc'[p].stored = << >> /\ loc'[p].updates = 0

\* C30: in a SaveGroups call that succeeds, the transaction calls the impact
\* predicate, then increments the serial, then writes the groups, then
\* commits; the first audit event is stored after the commit, and the
\* propagation sink is invoked after all the events of the call are stored.
C30_SaveGroupsOrder == /\ []SaveGroupsOrder /\ [][SaveGroupsSteps]_vars

\* a SaveGroups that committed, stored its events and invoked the sink is
\* about to return
C30_Witness ==
    \E p \in Procs :
        /\ CommittedSave(p) /\ pc[p] = "unlock"
        /\ Len(commits["a1"]) >= 1
        /\ loc[p].eventsToStore # << >>
        /\ loc[p].stored = loc[p].eventsToStore
        /\ loc[p].updates = 1


\* ------------------------------------------- a DeleteGroups deleting nothing
\* caller p's DeleteGroups ran its transaction and every ID it named, if it
\* named any, was rejected
NothingToDelete(p) ==
    /\ req[p].op = "DeleteGroups"
    /\ loc[p].opened
    /\ loc[p].deletedGroups = << >>

\* C31: a DeleteGroups whose IDs are all rejected, or whose ID list is
\* empty, leaves the groups and the network serial of the account as they
\* were, stores no GroupDeleted event, and returns the joined errors, one
\* per ID named.
C31_NothingDeletedNothingChanged ==
    \A p \in Procs :
        NothingToDelete(p)
        => /\ groups[req[p].account] = loc[p].pre.groups
           /\ serial[req[p].account] = loc[p].pre.serial
           /\ loc[p].stored = << >>
           /\ ( AtReturn(p) /\ loc[p].txErr = NoErr )
              => Len(loc[p].ret) = Len(req[p].ids)


\* ------------------------------------- failed reads of the deletion checks
\* the store reads of validateDeleteGroup's linkage checks
ValidationReads ==
    { "GetAccountRoutes", "GetAccountNameServerGroups", "GetAccountPolicies",
      "GetAccountSetupKeys", "GetAccountUsers", "GetAccountDNSSettings",
      "GetAccountSettings" }

\* the reads that failed while caller p's DeleteGroups validated the ID at
\* position i
FailedValidationReads(p, i) ==
    IF \/ req[p].ids[i] \notin DOMAIN loc[p].pre.groups
       \/ "GetGroupByID" \in loc[p].failures
    THEN {}
    ELSE Range(validateDeleteGroupCalls(scenario, loc[p].failures,
                                        loc[p].pre.groups[req[p].ids[i]],
                                        req[p].user))
         \cap ValidationReads \cap loc[p].failures

\* C32: when a read of routes, name-server groups, policies, setup keys,
\* users, DNS settings or account settings fails while DeleteGroups
\* validates a group, the group stays in the store and the call returns an
\* error carrying the store's failure.
C32_FailedReadBlocksDeletion ==
    \A p \in Procs :
        ( req[p].op = "DeleteGroups" /\ loc[p].opened /\ AtReturn(p) )
        => \A i \in 1..Len(req[p].ids) :
               FailedValidationReads(p, i) # {}
               => /\ req[p].ids[i] \in DOMAIN groups[req[p].account]
                  /\ \E k \in 1..Len(loc[p].ret) :
                         loc[p].ret[k].kind = "StoreFailure"


\* ------------------------------------------- deletable groups and impact
\* the impact predicate's answer for group g when every read succeeds
AffectsPeers(g) == areGroupChangesAffectPeers(scenario, {}, <<g>>).affects

\* C33: while no store read fails, a stored group that passes
\* validateDeleteGroup for some requester makes areGroupChangesAffectPeers
\* answer false, and every group a DeleteGroups deletes is such a group: the
\* call, which invokes no propagation sink, removes no group the DNS
\* exceptions, a name-server group, a policy rule or a route refers to.
C33_DeletableImpliesNoImpact ==
    /\ \A a \in Accounts : \A g \in DOMAIN groups[a] :
         \A k \in 1..Len(UserList(scenario)) :
             validateDeleteGroup(scenario, {}, groups[a][g],
                                 UserList(scenario)[k].id) = NoErr
             => ~AffectsPeers(g)
    /\ \A p \in Procs :
         ( DeleteCommitted(p) /\ loc[p].failures = {} )
         => /\ loc[p].updates = 0
            /\ \A i \in 1..Len(loc[p].deletedGroups) :
                 /\ ~AffectsPeers(loc[p].deletedGroups[i].id)
                 /\ ~ImpactReferenced(scenario, loc[p].deletedGroups[i].id)

\* with "g1" in the Groups of a route, a DeleteGroups without a failed read
\* has deleted "g2", the deletable group, and is about to return
C33_Witness ==
    \E p \in Procs :
        /\ DeleteCommitted(p) /\ AtReturn(p) /\ loc[p].failures = {}
        /\ scenario = "routeGroups" /\ AffectsPeers("g1")
        /\ "g1" \in DOMAIN groups["a1"]
        /\ Len(loc[p].deletedGroups) = 1 /\ loc[p].deletedGroups[1].id = "g2"
        /\ loc[p].stored # << >> /\ loc[p].updates = 0


\* ------------------------------------------------ exit-node exclusivity
\* the selection the last toggle must have left: none when the node's item
\* was checked and no other exit node was selected, the node alone otherwise
ExpectedSelection(last) ==
    IF last.checked /\ last.others = {} THEN {} ELSE {last.node}

\* C34: once a toggleExitNode has returned nil, with nothing but toggles
\* changing the selection since it began, at most one exit node is
\* selected; and right after such a toggle of node N, N is the only
\* selected exit node, whatever was selected before, unless N's item was
\* checked and no other exit node was selected: then none is selected.
C34_ExitNodeExclusive ==
    /\ ui.toggled => Cardinality(ui.selected) <= 1
    /\ ui.last # NoLast
       => /\ ui.selected = ExpectedSelection(ui.last)
          /\ ui.exitNodeMu = NoNode

\* "n1" was toggled while "n2" and "n3" were selected: it is now the only
\* selected exit node
C34_Witness ==
    /\ ui.goos = "darwin" /\ ui.toggled
    /\ ui.last = [node |-> "n1", checked |-> FALSE, others |-> {"n2", "n3"}]
    /\ ui.selected = {"n1"}

====
